---- MODULE Spec2Model ----
(***************************************************************************)
(* NostrPad: the pad page of one browser tab (PadPage + the useNostrPad    *)
(* hook), the session record of its device, and a second device that       *)
(* imports the pad's secret key.  Time is the wall clock in milliseconds.  *)
(***************************************************************************)
EXTENDS Integers, Sequences, FiniteSets, TLC

\* ---------------------------------------------------------------- constants
NOSTRPAD_KIND == 30078
LOGOUT_KIND == 21000
DEBOUNCE_MS == 500
D_TAG == "nostrpad"
TARGET_RELAY_COUNT == 5
RELAY_PROBE_TIMEOUT == 2000
RELAY_DISCOVERY_TIMEOUT == 3000
RELAY_INFO_TIMEOUT == 2000
MAX_RELAYS_TO_PROBE == 30
RELAY_CACHE_DURATION == 300000

\* ------------------------------------------------------------------- bounds
StartTime == 1000
MaxTime == 2000
MaxEdits == 2
MaxSwitches == 1
MaxImports == 1
MaxLogoutCalls == 2
MaxTampers == 2
MaxSends == 2
MaxPublishes == 3

TickSteps == {250}
Texts == {"", "a", "b"}
PadIds == {"padA", "padB"}
SecretKeys == {"skA", "skB"}
BOOTSTRAP_RELAYS == {"r1", "r2"}

NoKey == "none"
NoPub == "nopub"

\* ------------------------------------------------------------ pure helpers
\* getPublicKey of nostr-tools: the public key of a secret key
getPublicKey(sk) == IF sk = "skA" THEN "pkA" ELSE "pkB"

\* encodeFixed(first PAD_ID_BYTES bytes of the public key, PAD_ID_LENGTH)
getPadIdFromPubkey(pk) == IF pk = "pkA" THEN "padA" ELSE "padB"

\* sha256("nostrpad:" + padId): one conversation key per padId
deriveConversationKeyFromPadId(padId) == <<"nostrpad:", padId>>

\* NIP-44 ciphertext of JSON {text, timestamp} under the pad's key
encodePayload(text, padId, t) ==
  [key |-> deriveConversationKeyFromPadId(padId), text |-> text,
   timestamp |-> t, wf |-> TRUE]

\* content that no key decrypts to a payload (malformed, or "logout")
Garbage == [key |-> <<"", "">>, text |-> "", timestamp |-> 0, wf |-> FALSE]

NoPayload == [ok |-> FALSE, text |-> "", timestamp |-> 0]

\* decodePayload if decryption succeeded under any key
decodePayload_AnyKey(content, padId) ==
  IF content.wf
  THEN [ok |-> TRUE, text |-> content.text, timestamp |-> content.timestamp]
  ELSE NoPayload

\* try { JSON.parse(nip44Decrypt(content, key)) as PadPayload } catch: null
decodePayload(content, padId) ==
  IF content.wf /\ content.key = deriveConversationKeyFromPadId(padId)
  THEN [ok |-> TRUE, text |-> content.text, timestamp |-> content.timestamp]
  ELSE NoPayload

\* an event: tags are reduced to the value of the 'd' tag ("" = no d tag),
\* sig says whether verifyEvent accepts id and signature
MkEvent(kind, pk, dtag, sig, content, createdAt) ==
  [kind |-> kind, pubkey |-> pk, dtag |-> dtag, sig |-> sig,
   content |-> content, created_at |-> createdAt]

NoEvent == MkEvent(0, NoPub, "", FALSE, Garbage, 0)

createPadEvent(text, padId, sk, t) ==
  MkEvent(NOSTRPAD_KIND, getPublicKey(sk), D_TAG, TRUE,
          encodePayload(text, padId, t), t \div 1000)

isValidPadEvent(e) ==
  e.kind = NOSTRPAD_KIND /\ e.dtag = D_TAG /\ e.sig

createLogoutEvent(padId, sk, t) ==
  MkEvent(LOGOUT_KIND, getPublicKey(sk), padId, TRUE, Garbage, t \div 1000)

isValidLogoutEvent(e) ==
  e.kind = LOGOUT_KIND /\ e.dtag # "" /\ e.sig

\* ---------------------------------------------------------- relay discovery
\* BOOTSTRAP_RELAYS as the array it is
BootstrapSeq == <<"r1", "r2">>

\* responseTime of an unavailable relay: beyond every measurable latency
Infinity == RELAY_INFO_TIMEOUT + RELAY_PROBE_TIMEOUT + 1

\* the urls relays advertise; "r3/" is r3 written with a trailing slash
normalizeRelayUrl(url) == IF url = "r3/" THEN "r3" ELSE url

SeqToSet(q) == {q[i] : i \in 1..Len(q)}

Take(q, n) == SubSeq(q, 1, IF Len(q) < n THEN Len(q) ELSE n)

\* [...new Set(q)]: first occurrences, in order
Dedup(q) ==
  LET keep == {i \in 1..Len(q) : \A j \in 1..(i - 1) : q[j] # q[i]}
  IN [n \in 1..Cardinality(keep) |->
        q[CHOOSE i \in keep : Cardinality({j \in keep : j <= i}) = n]]

\* the NIP-11 documents a relay may serve, and isRelaySuitable on them
RelayDocs == {"open", "payment_required", "auth_required", "small_messages"}

isRelaySuitable(info) == info = "open"

Unavailable(url) == [url |-> url, responseTime |-> Infinity, available |-> FALSE]

Available(url, t) == [url |-> url, responseTime |-> t, available |-> TRUE]

\* Array.prototype.sort with (a, b) => a.responseTime - b.responseTime: stable
SortByResponseTime(q) ==
  LET place(i) == Cardinality({j \in 1..Len(q) :
                     \/ q[j].responseTime < q[i].responseTime
                     \/ q[j].responseTime = q[i].responseTime /\ j <= i})
  IN [n \in 1..Len(q) |-> q[CHOOSE i \in 1..Len(q) : place(i) = n]]

\* results.filter(r => r.available)
AvailableOnly(q) == SelectSeq(q, LAMBDA r : r.available)

\* parseRelayListEvent on the 'r' tags [url, marker] of a relay list event
parseRelayListEvent(tags) ==
  [i \in 1..Len(tags) |->
     [url |-> tags[i].url,
      read |-> tags[i].marker \in {"", "read"},
      write |-> tags[i].marker \in {"", "write"}]]

\* relays.filter(r => r.read).map(r => r.url)
ReadableUrls(infos) ==
  LET readable == SelectSeq(infos, LAMBDA r : r.read)
  IN [i \in 1..Len(readable) |-> readable[i].url]

\* discovered.add(normalizeRelayUrl(url)) for every url of q, in order
AddNormalized(discovered, q) ==
  Dedup(discovered \o [i \in 1..Len(q) |-> normalizeRelayUrl(q[i])])

\* probeRelay(url) before its first await; total: the time since the call
NoResult == [url |-> "", responseTime |-> 0, available |-> FALSE]

NewProbe(url) ==
  [url |-> url, done |-> FALSE, total |-> 0, result |-> NoResult]

NoProbing ==
  [urls |-> <<>>, probes |-> <<>>, results |-> <<>>, completed |-> 0,
   resolved |-> FALSE, value |-> <<>>]

\* probeRelays(urls) up to the return of its promise
StartProbing(urls) ==
  [urls |-> urls, probes |-> [i \in 1..Len(urls) |-> NewProbe(urls[i])],
   results |-> <<>>, completed |-> 0, resolved |-> FALSE, value |-> <<>>]

\* tryResolve without the completed === urls.length test
tryResolve_TargetOnly(pr) ==
  IF pr.resolved THEN pr
  ELSE IF Len(AvailableOnly(pr.results)) >= TARGET_RELAY_COUNT
  THEN [pr EXCEPT !.resolved = TRUE,
                  !.value = SortByResponseTime(AvailableOnly(pr.results))]
  ELSE pr

\* tryResolve of probeRelays
tryResolve(pr) ==
  IF pr.resolved THEN pr
  ELSE IF Len(AvailableOnly(pr.results)) >= TARGET_RELAY_COUNT
          \/ pr.completed = Len(pr.urls)
  THEN [pr EXCEPT !.resolved = TRUE,
                  !.value = SortByResponseTime(AvailableOnly(pr.results))]
  ELSE pr

\* probeRelay i resolves with result: .then and .finally of probeRelays
ProbeResolved(pr, i, result) ==
  tryResolve([pr EXCEPT !.probes[i].done = TRUE,
                        !.probes[i].result = result,
                        !.results = Append(@, result),
                        !.completed = @ + 1])

\* fetchRelayInfo without its abort timer
fetchRelayInfo_NoAbort(o) == [info |-> o.info, took |-> o.infoDelay]

\* fetchRelayInfo when the relay answers the NIP-11 request with o.info
\* after o.infoDelay ms ("none": an HTTP error, a body that is no JSON, a
\* failed request): the abort timer turns a late answer into null
fetchRelayInfo(o) ==
  IF o.infoDelay > RELAY_INFO_TIMEOUT
  THEN [info |-> "none", took |-> RELAY_INFO_TIMEOUT]
  ELSE [info |-> o.info, took |-> o.infoDelay]

\* probeRelay(url) when the relay behaves as o (its socket opens or fails
\* o.socketDelay ms after new WebSocket): the result and the time taken
probeRelay(url, o) ==
  LET doc == fetchRelayInfo(o) IN
  IF doc.info # "none" /\ ~isRelaySuitable(doc.info)
  THEN [result |-> Unavailable(url), took |-> doc.took]
  ELSE IF o.socketDelay > RELAY_PROBE_TIMEOUT
  THEN [result |-> Unavailable(url), took |-> doc.took + RELAY_PROBE_TIMEOUT]
  ELSE IF o.kind = "open"
  THEN [result |-> Available(url, o.socketDelay),
        took |-> doc.took + o.socketDelay]
  ELSE [result |-> Unavailable(url), took |-> doc.took + o.socketDelay]

\* useRelayDiscovery at its first render; second: the page was reloaded
\* after the selection prior
NoPrior == [done |-> FALSE, relaySource |-> ""]

MountDiscovery(editor, second, prior) ==
  [editor |-> editor, pc |-> "mount",
   relays |-> BootstrapSeq, relaySource |-> "bootstrap",
   isDiscovering |-> TRUE, initialized |-> FALSE, reinvoked |-> FALSE,
   wait |-> 0, discovered |-> <<>>, announced |-> <<>>,
   probed |-> FALSE, queried |-> FALSE, lookedUp |-> FALSE,
   anyOk |-> FALSE, threw |-> FALSE,
   second |-> second, age |-> 0, prior |-> prior]

NoDiscovery == [MountDiscovery(FALSE, FALSE, NoPrior) EXCEPT !.pc = "off"]

\* initializeRelays without its first line
AlreadyInitialized_Never(d) == FALSE

\* if (initializedRef.current) return
AlreadyInitialized(d) == d.initialized

\* the bootstrap branch taken never
BootstrapUsable_Never(value) == FALSE

\* bootstrapProbes.length > 0
BootstrapUsable(value) == Len(value) > 0

\* the discovered branch taken whatever was found
SelectionUsable_Always(best) == TRUE

\* bestRelays.length > 0
SelectionUsable(best) == Len(best) > 0

\* the union of the viewer branch without the Set
Merge_NoSet(list) == list \o BootstrapSeq

\* [...new Set([...discoveredRelays, ...BOOTSTRAP_RELAYS])]
Merge(list) == Dedup(list \o BootstrapSeq)

\* finally: setIsDiscovering(false)
Finally(d) == [d EXCEPT !.isDiscovering = FALSE, !.pc = "done"]

\* a catch block that leaves the relays as they are
Caught_KeepsRelays(d) == Finally([d EXCEPT !.threw = TRUE])

\* catch and finally of initializeRelays
Caught(d) ==
  Finally([d EXCEPT !.relays = BootstrapSeq, !.relaySource = "bootstrap",
                    !.threw = TRUE])

\* the editor branch after probeRelays(BOOTSTRAP_RELAYS) has resolved
AfterBootstrapProbe(d, value) ==
  IF BootstrapUsable(value)
  THEN [d EXCEPT !.relays = BootstrapSeq, !.relaySource = "bootstrap",
                 !.pc = "publishBootstrap", !.anyOk = TRUE]
  ELSE [d EXCEPT !.pc = "nip66", !.wait = 0, !.queried = TRUE,
                 !.discovered = AddNormalized(<<>>, BootstrapSeq)]

\* selectBestRelays after probeRelays has resolved, and the editor branch
\* after selectBestRelays
AfterCandidateProbe(d, value) ==
  LET best == [i \in 1..Len(Take(value, TARGET_RELAY_COUNT)) |-> value[i].url]
  IN IF SelectionUsable(best)
     THEN [d EXCEPT !.relays = best, !.relaySource = "discovered",
                    !.pc = "publishBest", !.anyOk = TRUE]
     ELSE Finally([d EXCEPT !.relays = BootstrapSeq,
                            !.relaySource = "bootstrap"])

\* the viewer branch after fetchPadRelayList has returned list (<<>>: null
\* or an empty array)
AfterLookup(d, list) ==
  IF Len(list) > 0
  THEN Finally([d EXCEPT !.relays = Merge(list), !.relaySource = "discovered",
                         !.announced = list, !.anyOk = TRUE])
  ELSE Finally([d EXCEPT !.relays = BootstrapSeq,
                         !.relaySource = "bootstrap"])

\* tryFilter of fetchPadRelayList has resolved with list
FilterTried(d, list) ==
  IF d.pc = "lookupPrimary" /\ Len(list) = 0
  THEN [d EXCEPT !.pc = "lookupFallback", !.wait = 0]
  ELSE AfterLookup(d, list)

\* ------------------------------------------------------------ session store
\* sessionStorage.ts over the IndexedDB database of the origin. AES-GCM is
\* taken as an authenticated cipher (a ciphertext opens only under the key
\* and iv it was made with) and SHA-256 as free of collisions.
DB_VERSION == 3
LEGACY_VERSION == 2
GLOBAL_KEY == "current-session"
LEGACY_KEY == "all-sessions"
StoreKeys == {GLOBAL_KEY, LEGACY_KEY}

AesKeys == {"k1", "k2"}
Ivs == {"iv1", "iv2"}

NoCipher == [key |-> "", iv |-> "", plain |-> NoKey]
NoTag == <<>>

\* no record under a key (store.get gives undefined); createdAt is 0 when
\* the object has no such property, schema is the version of the database
\* at the time of the put
NoRecord ==
  [padId |-> "", encryptedPrivateKey |-> NoCipher, aesKey |-> "", iv |-> "",
   integrityTag |-> NoTag, createdAt |-> 0, schema |-> 0]

\* a browser that never opened the database
NoDatabase ==
  [version |-> 0, hasStore |-> FALSE, records |-> [k \in StoreKeys |-> NoRecord]]

\* crypto.subtle.encrypt with the generated key and the random iv
encryptPrivateKey(privateKey, key, iv) ==
  [encrypted |-> [key |-> key, iv |-> iv, plain |-> privateKey],
   key |-> key, iv |-> iv]

\* crypto.subtle.decrypt: ok is FALSE when it throws
decryptPrivateKey(encrypted, key, iv) ==
  IF encrypted.key = key /\ encrypted.iv = iv /\ encrypted.plain # NoKey
  THEN [ok |-> TRUE, value |-> encrypted.plain]
  ELSE [ok |-> FALSE, value |-> NoKey]

computeIntegrityTag(padId, iv, encryptedPrivateKey) ==
  <<padId, iv, encryptedPrivateKey>>

\* verifyIntegrityTag that only looks for a tag
verifyIntegrityTag_TagPresent(session) == session.integrityTag # NoTag

verifyIntegrityTag(session) ==
  /\ session.integrityTag # NoTag
  /\ computeIntegrityTag(session.padId, session.iv,
                         session.encryptedPrivateKey) = session.integrityTag

\* indexedDB.open(DB_NAME, DB_VERSION) with onupgradeneeded
initDB(db) ==
  IF db.version < DB_VERSION
  THEN [db EXCEPT !.version = DB_VERSION, !.hasStore = TRUE]
  ELSE db

\* storeSession when its transaction completes
storeSession(db, padId, encryptedPrivateKey, aesKey, iv) ==
  [initDB(db) EXCEPT !.records[GLOBAL_KEY] =
     [padId |-> padId, encryptedPrivateKey |-> encryptedPrivateKey,
      aesKey |-> aesKey, iv |-> iv,
      integrityTag |-> computeIntegrityTag(padId, iv, encryptedPrivateKey),
      createdAt |-> 0, schema |-> DB_VERSION]]

getStoredSession(db) == db.records[GLOBAL_KEY]

getVerifiedStoredSession(db) ==
  LET session == getStoredSession(db) IN
  IF session = NoRecord THEN NoRecord
  ELSE IF ~verifyIntegrityTag(session) THEN NoRecord
  ELSE session

\* getSession without the padId comparison
getSession_AnyPad(db, padId) == getVerifiedStoredSession(db)

getSession(db, padId) ==
  LET result == getVerifiedStoredSession(db) IN
  IF result = NoRecord \/ result.padId # padId THEN NoRecord ELSE result

\* getDecryptedPrivateKey: the key returned (NoKey for null) and whether
\* decryptPrivateKey was called
getDecryptedPrivateKey(db, padId) ==
  LET session == getSession(db, padId) IN
  IF session = NoRecord THEN [key |-> NoKey, decrypted |-> FALSE]
  ELSE [key |-> decryptPrivateKey(session.encryptedPrivateKey,
                                  session.aesKey, session.iv).value,
        decrypted |-> TRUE]

clearSession(db) == [initDB(db) EXCEPT !.records[GLOBAL_KEY] = NoRecord]

\* -------------------------------------------------------------------- state
VARIABLES
  hook,          \* state, refs and props of useNostrPad in this tab
  now,           \* Date.now()
  timer,         \* the single setTimeout slot of useDebounce
  inflight,      \* doPublish calls awaiting publishEvent
  fetches,       \* pool.querySync calls of the editor pool effect
  loadKeys,      \* PadPage.loadKeys awaiting deriveKeys
  stored,        \* the session record of this device (IndexedDB)
  storedB,       \* the session record of the other device
  relayEvents,   \* logout events published to the relays
  logoutRunning, \* PadPage.handleLogout calls awaiting the stored session
  edits,         \* history: the times of the accepted local edits, in order
  published,     \* history: the edit numbers of the publishes started, in order
  delivered,     \* history: the payloads handed to a view-only hook,
                 \* whether a newer one reached an editor during a local
                 \* edit, whether one by another author reached a viewer,
                 \* whether a publish settled after a change of pad, and
                 \* the publishes that settled with no relay accepting
  switches,      \* history: number of route changes
  imports,       \* history: number of imports on the other device
  logoutCalls,   \* history: number of onLogoutSignal() calls
  lastLogout,    \* history: the last logout-kind event handleEvent was
                 \* given, its publications then on the relays, what the
                 \* hook was and what the handler did
  tabs,          \* a second tab of this device on the same pad, and the
                 \* NEW_EDITOR messages in flight between the two tabs
  disc,          \* state, refs and position of useRelayDiscovery
  probing,       \* the probeRelays call in progress
  vault,         \* the IndexedDB database of sessionStorage.ts, the last
                 \* call made on it and what the call returned
  send,          \* a publishEvent call and the per-relay publish attempts
  codec          \* a content string, how it was made and the last decode

vars == <<hook, now, timer, inflight, fetches, loadKeys, stored, storedB,
          relayEvents, logoutRunning, edits, published, delivered, switches,
          imports, logoutCalls, lastLogout, tabs, disc, probing,
          vault, send, codec>>

\* the pad page of this tab and the two devices' session records
padVars == <<hook, now, timer, inflight, fetches, loadKeys, stored, storedB,
             relayEvents, logoutRunning, edits, published, delivered,
             switches, imports, logoutCalls, lastLogout>>

\* the library calls checked on their own
libVars == <<vault, send, codec>>

NoSession == [padId |-> "", secretKey |-> NoKey, createdAt |-> 0]
NoTimer == [armed |-> FALSE, value |-> "", seq |-> 0, remaining |-> 0]
NoLoad == [pending |-> FALSE, padId |-> "", isEdit |-> FALSE]

\* no second tab, no broadcast in flight
NoTabs ==
  [other |-> "closed", pad |-> "", otherBlocked |-> FALSE,
   toThis |-> FALSE, toOther |-> FALSE]

canEdit(h) == h.secretKey # NoKey

\* useNostrPad as first rendered by a freshly mounted PadPage (keys = null)
MountHook(padId, isEdit) ==
  [padId |-> padId, isEdit |-> isEdit,
   secretKey |-> NoKey, publicKey |-> "", sessionCreatedAt |-> 0,
   isBlocked |-> FALSE,
   content |-> "", contentSeq |-> 0,
   debouncedContent |-> "", debouncedSeq |-> 0,
   isDiscovering |-> TRUE, activeRelays |-> BOOTSTRAP_RELAYS,
   connectedCount |-> 0,
   isSaving |-> FALSE, lastSaved |-> 0, foundPublicKey |-> NoPub,
   isLoadingContent |-> FALSE, hasPool |-> FALSE,
   latestEvent |-> NoEvent, latestTimestamp |-> 0, latestText |-> "",
   isLocalChange |-> FALSE, pendingPublish |-> FALSE,
   currentPadId |-> padId]

\* ------------------------------------------------------ useNostrPad: handlers
\* logoutSignalled with >= for >
logoutSignalled_OrEqual(h, e) ==
  /\ canEdit(h)
  /\ isValidLogoutEvent(e)
  /\ h.sessionCreatedAt # 0
  /\ e.created_at * 1000 >= h.sessionCreatedAt

\* the logout branch of handleEvent: onLogoutSignal() is called
logoutSignalled(h, e) ==
  /\ canEdit(h)
  /\ isValidLogoutEvent(e)
  /\ h.sessionCreatedAt # 0
  /\ e.created_at * 1000 > h.sessionCreatedAt

\* IsNewer without the comparison: every decodable event is adopted
IsNewer_Always(payload, h) == TRUE

\* IsNewer with >= for >
IsNewer_OrEqual(payload, h) == payload.timestamp >= h.latestTimestamp

\* "only update if this is a newer event (compare embedded timestamps)"
IsNewer(payload, h) == payload.timestamp > h.latestTimestamp

\* KeepsLocalChange without the isLocalChangeRef test
KeepsLocalChange_Never(h) == FALSE

\* "don't overwrite local changes that are being typed"
KeepsLocalChange(h) == h.isLocalChange

\* handleEvent without the view-only author check
handleEvent_NoAuthorCheck(h, e) ==
  IF logoutSignalled(h, e) THEN h
  ELSE IF ~isValidPadEvent(e) THEN h
  ELSE
    LET h1 == IF h.publicKey = ""
              THEN [h EXCEPT !.foundPublicKey = e.pubkey] ELSE h
        payload == decodePayload(e.content, h.padId)
    IN IF ~payload.ok THEN h1
       ELSE IF IsNewer(payload, h1)
       THEN [h1 EXCEPT !.latestEvent = e,
                       !.latestTimestamp = payload.timestamp,
                       !.latestText = payload.text,
                       !.content = IF ~KeepsLocalChange(h1)
                                   THEN payload.text ELSE @,
                       !.contentSeq = IF ~KeepsLocalChange(h1) THEN 0 ELSE @]
       ELSE h1

\* handleEvent: the hook after the handler has run on event e
handleEvent(h, e) ==
  IF logoutSignalled(h, e) THEN h
  ELSE IF ~isValidPadEvent(e) THEN h
  ELSE IF h.publicKey = "" /\ getPadIdFromPubkey(e.pubkey) # h.padId THEN h
  ELSE
    LET h1 == IF h.publicKey = ""
              THEN [h EXCEPT !.foundPublicKey = e.pubkey] ELSE h
        payload == decodePayload(e.content, h.padId)
    IN IF ~payload.ok THEN h1
       ELSE IF IsNewer(payload, h1)
       THEN [h1 EXCEPT !.latestEvent = e,
                       !.latestTimestamp = payload.timestamp,
                       !.latestText = payload.text,
                       !.content = IF ~KeepsLocalChange(h1)
                                   THEN payload.text ELSE @,
                       !.contentSeq = IF ~KeepsLocalChange(h1) THEN 0 ELSE @]
       ELSE h1

\* setContent without the isBlocked test
setContent_NoBlockCheck(h, newContent, seq) ==
  IF ~canEdit(h) \/ h.isLoadingContent THEN h
  ELSE [h EXCEPT !.isLocalChange = TRUE,
                 !.content = newContent, !.contentSeq = seq]

\* setContent: the hook after a local edit to newContent, numbered seq
setContent(h, newContent, seq) ==
  IF ~canEdit(h) \/ h.isBlocked \/ h.isLoadingContent THEN h
  ELSE [h EXCEPT !.isLocalChange = TRUE,
                 !.content = newContent, !.contentSeq = seq]

\* the reset effect, deps [padId, publicKey, canEdit]
ResetEffect(h) ==
  [h EXCEPT !.currentPadId = h.padId,
            !.content = "", !.contentSeq = 0,
            !.foundPublicKey = IF h.publicKey # "" THEN h.publicKey ELSE NoPub,
            !.lastSaved = 0,
            !.isSaving = FALSE,
            !.isLoadingContent = canEdit(h),
            !.latestEvent = NoEvent,
            !.latestTimestamp = 0,
            !.latestText = "",
            !.isLocalChange = FALSE,
            !.pendingPublish = FALSE]

\* PublishBlocked without the connectedCount test
PublishBlocked_NoRelayCheck(h) ==
  ~canEdit(h) \/ h.isDiscovering \/ h.isBlocked

\* first return of the publish effect: no key, no relay, discovering, paused
PublishBlocked(h) ==
  ~canEdit(h) \/ h.connectedCount = 0 \/ h.isDiscovering \/ h.isBlocked

\* the publish effect reading content where it reads debouncedContent
PublishText_Undebounced(h) == [text |-> h.content, seq |-> h.contentSeq]

\* the text the publish effect works on (debouncedContent), and the edit it
\* stems from
PublishText(h) == [text |-> h.debouncedContent, seq |-> h.debouncedSeq]

\* the publish effect without its unchanged-content return
PublishUnchanged_Never(h) == FALSE

\* "content matches latest text and we already have a known event"
PublishUnchanged(h) ==
  PublishText(h).text = h.latestText /\ h.latestTimestamp > 0

\* the publish effect without its empty-on-initial-load return
PublishEmptyInitial_Never(h) == FALSE

\* "empty content on initial load"
PublishEmptyInitial(h) ==
  PublishText(h).text = "" /\ h.latestTimestamp = 0

\* TRUE when the publish effect calls doPublish()
PublishStarts(h) ==
  /\ ~PublishBlocked(h)
  /\ ~h.pendingPublish
  /\ ~PublishUnchanged(h)
  /\ ~PublishEmptyInitial(h)

\* the publish effect up to the await inside doPublish
PublishEffect(h) ==
  IF PublishBlocked(h) THEN h
  ELSE IF h.pendingPublish THEN h
  ELSE IF PublishUnchanged(h) THEN [h EXCEPT !.isLocalChange = FALSE]
  ELSE IF PublishEmptyInitial(h) THEN h
  ELSE IF h.hasPool
  THEN [h EXCEPT !.pendingPublish = TRUE, !.isSaving = TRUE]
  ELSE [h EXCEPT !.pendingPublish = FALSE, !.isSaving = FALSE,
                 !.isLocalChange = FALSE]

\* what doPublish keeps across its await (id: which call it is; seq: the
\* edit its text stems from)
PublishRecord(h, t, id) ==
  [id |-> id, publishPadId |-> h.padId, seq |-> PublishText(h).seq,
   event |-> createPadEvent(PublishText(h).text, h.padId, h.secretKey, t)]

\* doPublish without the currentPadIdRef comparisons
PublishSettled_NoPadCheck(h, p, t) ==
  LET payload == decodePayload(p.event.content, p.publishPadId)
      h1 == [h EXCEPT !.latestEvent = p.event]
      h2 == IF payload.ok
            THEN [h1 EXCEPT !.latestTimestamp = payload.timestamp,
                            !.latestText = payload.text]
            ELSE h1
  IN [h2 EXCEPT !.lastSaved = t, !.isSaving = FALSE,
                !.isLocalChange = FALSE, !.pendingPublish = FALSE]

\* doPublish that records nothing of the event it has published
PublishSettled_NothingRecorded(h, p, t) ==
  IF h.currentPadId # p.publishPadId THEN h
  ELSE [h EXCEPT !.isSaving = FALSE, !.isLocalChange = FALSE,
                 !.pendingPublish = FALSE]

\* doPublish after publishEvent has settled
PublishSettled(h, p, t) ==
  IF h.currentPadId # p.publishPadId THEN h
  ELSE
    LET payload == decodePayload(p.event.content, p.publishPadId)
        h1 == [h EXCEPT !.latestEvent = p.event]
        h2 == IF payload.ok
              THEN [h1 EXCEPT !.latestTimestamp = payload.timestamp,
                              !.latestText = payload.text]
              ELSE h1
    IN [h2 EXCEPT !.lastSaved = t, !.isSaving = FALSE,
                  !.isLocalChange = FALSE, !.pendingPublish = FALSE]

\* the .then/.finally of the editor pool effect's querySync; f is the
\* closure (padId of that render), e the newest valid event or NoEvent
FetchSettled(h, f, e) ==
  LET payload == decodePayload(e.content, f.padId)
      h1 == IF isValidPadEvent(e) /\ payload.ok
               /\ payload.timestamp > h.latestTimestamp
            THEN [h EXCEPT !.latestEvent = e,
                           !.latestTimestamp = payload.timestamp,
                           !.latestText = payload.text,
                           !.content = payload.text, !.contentSeq = 0]
            ELSE h
  IN [h1 EXCEPT !.isLoadingContent = FALSE]

\* ------------------------------------------------------ useNostrPad: effects
ResetDeps(h) == <<h.padId, h.publicKey, canEdit(h)>>

\* deps of handleEvent other than onLogoutSignal
HandleEventDeps(h) == <<h.padId, h.publicKey, canEdit(h), h.sessionCreatedAt>>

EditorPoolDeps(h) ==
  <<canEdit(h), h.activeRelays, h.isDiscovering, h.padId, h.publicKey,
    HandleEventDeps(h)>>

ViewerPoolDeps(h) ==
  <<canEdit(h), HandleEventDeps(h), h.activeRelays, h.isDiscovering>>

PublishDeps(h) ==
  <<h.debouncedContent, canEdit(h), h.secretKey, h.connectedCount,
    h.activeRelays, h.isDiscovering, h.padId, h.isBlocked>>

\* the editor pool effect gets past its two early returns
EditorPoolStarts(h) ==
  ~(h.isDiscovering \/ h.activeRelays = {}) /\ canEdit(h) /\ h.publicKey # ""

\* the view-only pool effect gets past its two early returns
ViewerPoolStarts(h) ==
  ~(h.isDiscovering \/ h.activeRelays = {}) /\ ~canEdit(h)

\* One commit: the effects whose deps differ between render old and render
\* new run in declaration order (reset, editor pool, viewer pool, publish).
\* keysSet: PadPage called setKeys, so handleLogout and handleEvent are new.
EffectPass(old, new, keysSet, t) ==
  LET h1 == IF ResetDeps(old) # ResetDeps(new) THEN ResetEffect(new) ELSE new
      edRun == /\ (EditorPoolDeps(old) # EditorPoolDeps(new) \/ keysSet)
               /\ EditorPoolStarts(new)
      h2 == IF edRun
            THEN [h1 EXCEPT !.hasPool = TRUE, !.isLoadingContent = TRUE]
            ELSE h1
      vwRun == /\ (ViewerPoolDeps(old) # ViewerPoolDeps(new) \/ keysSet)
               /\ ViewerPoolStarts(new)
      h3 == IF vwRun THEN [h2 EXCEPT !.hasPool = TRUE] ELSE h2
      pubRun == PublishDeps(old) # PublishDeps(new)
      h4 == IF pubRun THEN PublishEffect(h3) ELSE h3
  IN [h |-> h4,
      reset |-> ResetDeps(old) # ResetDeps(new),
      fetch |-> edRun,
      pub |-> pubRun /\ PublishStarts(h3) /\ h3.hasPool,
      seen |-> h3]

\* useDebounce (value, DEBOUNCE_MS): a changed value cancels the pending
\* timeout and arms a new one
Rearm(tm, oldContent, h) ==
  IF h.content # oldContent
  THEN [armed |-> TRUE, value |-> h.content, seq |-> h.contentSeq,
        remaining |-> DEBOUNCE_MS]
  ELSE tm

\* the history of deliveries before any delivery
NoDelivered ==
  [events |-> {}, fetched |-> FALSE, guarded |-> FALSE, foreign |-> FALSE,
   stale |-> FALSE, refused |-> {}]

\* the part of every step that follows a render: effects, timer, async calls
Commit(old, new, keysSet, tm) ==
  LET r == EffectPass(old, new, keysSet, now) IN
  /\ r.pub => Len(published) < MaxPublishes
  /\ hook' = r.h
  /\ timer' = Rearm(tm, old.content, r.h)
  /\ inflight' = IF r.pub
                 THEN inflight \cup
                        {PublishRecord(r.seen, now, Len(published) + 1)}
                 ELSE inflight
  /\ published' = IF r.pub THEN Append(published, PublishText(r.seen).seq)
                  ELSE published
  /\ fetches' = IF r.fetch
                THEN fetches \cup {[padId |-> new.padId,
                                    publicKey |-> new.publicKey]}
                ELSE fetches
  /\ delivered' = IF r.reset THEN NoDelivered
                  ELSE delivered

\* ------------------------------------------------------------ PadPage, vault
\* deriveKeys(padId, isEdit) over the stored session (a null result and a
\* view-only result give the hook the same props)
ViewOnlyKeys == [secretKey |-> NoKey, publicKey |-> ""]

\* deriveKeys without the expectedPadId comparison
deriveKeys_NoPadIdCheck(padId, isEdit, session) ==
  IF isEdit /\ session.secretKey # NoKey /\ session.padId = padId
  THEN [secretKey |-> session.secretKey,
        publicKey |-> getPublicKey(session.secretKey)]
  ELSE ViewOnlyKeys

deriveKeys(padId, isEdit, session) ==
  IF isEdit /\ session.secretKey # NoKey /\ session.padId = padId
  THEN IF getPadIdFromPubkey(getPublicKey(session.secretKey)) # padId
       THEN ViewOnlyKeys
       ELSE [secretKey |-> session.secretKey,
             publicKey |-> getPublicKey(session.secretKey)]
  ELSE ViewOnlyKeys

\* keys.sessionCreatedAt: the createdAt of the session the key was read from
SessionCreatedAt(keys, session) ==
  IF keys.secretKey # NoKey THEN session.createdAt ELSE 0

\* createAndStoreSession(padId, secretKey, createdAt)
createAndStoreSession(padId, sk, createdAt) ==
  [padId |-> padId, secretKey |-> sk, createdAt |-> createdAt]

\* handleImportSession without the safety margin: a timestamp before the event
ImportSessionTimestamp_Earlier(logoutEvent) ==
  (logoutEvent.created_at * 1000) - 1000

\* handleImportSession: the session timestamp derived from the logout event
ImportSessionTimestamp(logoutEvent) == (logoutEvent.created_at * 1000) + 1000

\* handleLogout without the comparison of the two createdAt
LogoutSkipped_Never(session, l) == FALSE

\* handleLogout after getVerifiedStoredSession: TRUE when it returns early
LogoutSkipped(session, l) == session.createdAt > l.sessionCreatedAt

\* the single-tab effect of PadPage, deps [canEdit, padId]
ChannelDeps(h) == <<canEdit(h), h.padId>>

\* the effect got past its early return: this tab holds an open
\* BroadcastChannel named after the pad
ChannelOpen(h) == canEdit(h) /\ h.padId # ""

\* the single-tab effect in the commit from render old to render new: the
\* cleanup closes the old channel (what was not delivered to it is lost),
\* the effect opens the new one and posts NEW_EDITOR to the open channels of
\* the same name
ChannelEffect(tb, old, new) ==
  IF ChannelDeps(old) = ChannelDeps(new) THEN tb
  ELSE IF ChannelOpen(new) /\ tb.other = "editor" /\ tb.pad = new.padId
  THEN [tb EXCEPT !.toThis = FALSE, !.toOther = TRUE]
  ELSE [tb EXCEPT !.toThis = FALSE]

\* channel.onmessage without the setIsMultiTabBlocked call
onNewEditor_Ignored(h) == h

\* channel.onmessage on NEW_EDITOR: setIsMultiTabBlocked(true)
onNewEditor(h) == [h EXCEPT !.isBlocked = TRUE]

\* ------------------------------------------------------------------- inputs
EvTimes == {1500, 2000}
LogoutSecs == {1, 2, 3}
RemoteTexts == {"r", "s"}
Pubkeys == {getPublicKey(sk) : sk \in SecretKeys}

\* what a relay may hand to a subscription: events of the content kind with
\* good and bad signatures, any author, encrypted for any pad, or malformed
ContentEvents ==
  {MkEvent(NOSTRPAD_KIND, pk, D_TAG, sig, encodePayload(x, p, t), t \div 1000) :
     pk \in Pubkeys, sig \in BOOLEAN, x \in RemoteTexts, p \in PadIds,
     t \in EvTimes}
  \cup {MkEvent(NOSTRPAD_KIND, pk, D_TAG, TRUE, Garbage, 1) : pk \in Pubkeys}

\* events of the logout kind: any author, any or no d tag, any signature
LogoutEvents ==
  {MkEvent(LOGOUT_KIND, pk, d, sig, Garbage, c) :
     pk \in Pubkeys, d \in PadIds \cup {""}, sig \in BOOLEAN, c \in LogoutSecs}

\* the content events tried on the editor's handleEvent
EditorEvents ==
  {e \in ContentEvents :
     e.pubkey = "pkA" /\ e.content.wf /\ e.content.text = "r"
       /\ e.content.timestamp = 2000}

\* what querySync may resolve with: nothing, or the event the pad's author
\* published at FetchedTime, before the page was opened
FetchedTime == StartTime - 500

FetchResults ==
  {NoEvent, createPadEvent("a", "padA", "skA", FetchedTime)}

\* the session record a device holds for secret key sk when it was created
\* new at time t (createdAt = Date.now()) or imported at time t
NewSession(sk, t) ==
  createAndStoreSession(getPadIdFromPubkey(getPublicKey(sk)), sk, t)

ImportedSession(sk, t) ==
  createAndStoreSession(getPadIdFromPubkey(getPublicKey(sk)), sk,
    ImportSessionTimestamp(
      createLogoutEvent(getPadIdFromPubkey(getPublicKey(sk)), sk, t)))

\* the logout event of an import made on another device after StartTime
TabEvents ==
  {createLogoutEvent("padA", "skA", StartTime + DEBOUNCE_MS + DEBOUNCE_MS)}

\* a logout event on the relays, with the time it was published
Published(e, t) == [event |-> e, publishedAt |-> t]

NoLogout ==
  [event |-> NoEvent, seen |-> {}, editor |-> FALSE, padId |-> "",
   createdAt |-> 0, invoked |-> FALSE, changed |-> FALSE]

\* the session store before any call, over database db
NoVaultCall ==
  [op |-> "", padId |-> "", isEdit |-> FALSE, session |-> NoRecord,
   key |-> NoKey, decrypted |-> FALSE, keys |-> ViewOnlyKeys,
   failed |-> FALSE]

NewVault(db) ==
  [db |-> db, call |-> NoVaultCall, written |-> NoRecord, previous |-> "",
   tampers |-> 0, upgradedFrom |-> DB_VERSION]

\* the database an earlier version of the application (DB_VERSION 2, key
\* 'all-sessions', no integrity tag) has left with a session in it
LegacyDatabase ==
  [version |-> LEGACY_VERSION, hasStore |-> TRUE,
   records |-> [k \in StoreKeys |->
      IF k = LEGACY_KEY
      THEN [padId |-> "padA",
            encryptedPrivateKey |-> encryptPrivateKey("skA", "k1", "iv1").encrypted,
            aesKey |-> "k1", iv |-> "iv1", integrityTag |-> NoTag,
            createdAt |-> 0, schema |-> LEGACY_VERSION]
      ELSE NoRecord]]

\* what can be done to the stored record from outside the application
Tampers == {"padId", "createdAt", "iv", "encryptedPrivateKey", "integrityTag",
            "forge"}

OtherOf(x, xs) == CHOOSE y \in xs : y # x

Tampered(r, kind) ==
  IF kind = "padId" THEN [r EXCEPT !.padId = OtherOf(@, PadIds)]
  ELSE IF kind = "createdAt" THEN [r EXCEPT !.createdAt = @ + 1000]
  ELSE IF kind = "iv" THEN [r EXCEPT !.iv = OtherOf(@, Ivs)]
  ELSE IF kind = "encryptedPrivateKey"
  THEN [r EXCEPT !.encryptedPrivateKey.plain = OtherOf(@, SecretKeys)]
  ELSE IF kind = "integrityTag" THEN [r EXCEPT !.integrityTag = NoTag]
  ELSE [r EXCEPT !.padId = OtherOf(@, PadIds),
                 !.integrityTag =
                    computeIntegrityTag(OtherOf(r.padId, PadIds), r.iv,
                                        r.encryptedPrivateKey)]

\* publishEvent before it is called. returns: what pool.publish gives back,
\* "promises" (an array with one promise per relay, as SimplePool.publish
\* of nostr-tools 2 does) or "promise" (one promise, settled with the
\* relay's answer); nostr-tools is not part of the sources
PoolPublishReturns == {"promises", "promise"}
SendRelays == {"r1", "r2", "r3"}
RelayLists == {<<"r1">>, <<"r1", "r2">>, <<"r1", "r2", "r3">>}

NoSend ==
  [pc |-> "idle", returns |-> "promises", relays |-> <<>>,
   attempts |-> [r \in SendRelays |-> "none"], successRelays |-> <<>>,
   value |-> <<>>, sends |-> 0]

\* the text property of a parsed JSON value that has none (undefined, which
\* no comparison with a timestamp finds newer)
Undefined == "(undefined)"

\* the contents checked against decodePayload: encoded payloads, strings
\* nip44Decrypt or JSON.parse throws on, and the NIP-44 encryption under a
\* pad's key of a JSON value that is not a {text, timestamp} object, such
\* as {}
CodecTimes == {1000, 1500}
Malformed ==
  {Garbage} \cup
  {[key |-> deriveConversationKeyFromPadId(p), text |-> "", timestamp |-> 0,
    wf |-> FALSE] : p \in PadIds} \cup
  {[key |-> deriveConversationKeyFromPadId(p), text |-> Undefined,
    timestamp |-> 0, wf |-> TRUE] : p \in PadIds}

NoCodec ==
  [content |-> Garbage, made |-> "", text |-> "", padId |-> "", timestamp |-> 0,
   decodedFor |-> "", payload |-> NoPayload]

LibIdle == vault = NewVault(NoDatabase) /\ send = NoSend /\ codec = NoCodec

\* --------------------------------------------------------------------- Init
\* the page is opened at StartTime on route (padA, isEdit); the device holds
\* session ses, and the relays hold the logout events evs
OpenedPage(isEdit, ses, evs) ==
  /\ hook = MountHook("padA", isEdit)
  /\ loadKeys = [pending |-> TRUE, padId |-> "padA", isEdit |-> isEdit]
  /\ stored = ses
  /\ now = StartTime
  /\ timer = NoTimer
  /\ inflight = {}
  /\ fetches = {}
  /\ storedB = NoSession
  /\ relayEvents = evs
  /\ logoutRunning = {}
  /\ edits = <<>>
  /\ published = <<>>
  /\ delivered = NoDelivered
  /\ switches = 0
  /\ imports = 0
  /\ logoutCalls = 0
  /\ lastLogout = NoLogout
  /\ tabs = NoTabs

\* the same, with relay discovery left aside
Opened(isEdit, ses, evs) ==
  /\ OpenedPage(isEdit, ses, evs)
  /\ disc = NoDiscovery
  /\ probing = NoProbing
  /\ LibIdle

\* the edit route, with or without a session for the pad
Init == \E ses \in {NoSession, NewSession("skA", StartTime)} :
          Opened(TRUE, ses, {})

\* the edit route with the session of the pad's creator
InitEditor == Opened(TRUE, NewSession("skA", StartTime), {})

\* the view-only route
InitView == Opened(FALSE, NoSession, {})

\* the edit route with a session just created, or just imported (the import
\* has published its own logout event)
InitLogout ==
  \/ Opened(TRUE, NewSession("skA", StartTime), {})
  \/ Opened(TRUE, ImportedSession("skA", StartTime),
            {Published(createLogoutEvent("padA", "skA", StartTime), StartTime)})

\* ------------------------------------------------------------------ actions
\* time passes; a due timeout fires before time moves on
Tick(d) ==
  /\ now + d <= MaxTime
  /\ timer.armed => d <= timer.remaining
  /\ now' = now + d
  /\ timer' = IF timer.armed THEN [timer EXCEPT !.remaining = @ - d] ELSE timer
  /\ UNCHANGED <<hook, inflight, fetches, loadKeys, stored, storedB,
                 relayEvents, logoutRunning, edits, published, delivered,
                 switches, imports, logoutCalls, lastLogout,
                 tabs, disc, probing, libVars>>

\* the useDebounce timeout fires: setDebouncedValue(value)
DebounceFire ==
  /\ timer.armed /\ timer.remaining = 0
  /\ Commit(hook, [hook EXCEPT !.debouncedContent = timer.value,
                               !.debouncedSeq = timer.seq], FALSE, NoTimer)
  /\ UNCHANGED <<now, loadKeys, stored, storedB, relayEvents, logoutRunning,
                 edits, switches, imports, logoutCalls, lastLogout,
                 tabs, disc, probing, libVars>>

\* the Editor's onChange calls setContent(c)
SetContent(c) ==
  /\ c # hook.content
  /\ Len(edits) < MaxEdits
  /\ hook' = setContent(hook, c, Len(edits) + 1)
  /\ timer' = Rearm(timer, hook.content, hook')
  /\ edits' = IF hook' # hook THEN Append(edits, now) ELSE edits
  /\ UNCHANGED <<now, inflight, fetches, loadKeys, stored, storedB,
                 relayEvents, logoutRunning, published, delivered, switches,
                 imports, logoutCalls, lastLogout,
                 tabs, disc, probing, libVars>>

\* a content event that is validly signed and decodable with the pad's key,
\* newer than what the hook holds, by an author whose public key does not
\* encode to the pad's id
IsForeignContentEvent(h, e) ==
  /\ isValidPadEvent(e)
  /\ getPadIdFromPubkey(e.pubkey) # h.padId
  /\ decodePayload(e.content, h.padId).ok
  /\ decodePayload(e.content, h.padId).timestamp > h.latestTimestamp

\* a content event that is validly signed, by the pad's author, decodable
IsPadContentEvent(h, e) ==
  /\ isValidPadEvent(e)
  /\ getPadIdFromPubkey(e.pubkey) = h.padId
  /\ decodePayload(e.content, h.padId).ok

\* a subscription of the current pool hands event e to handleEvent
HandleEvent(e) ==
  /\ ~hook.isDiscovering /\ hook.hasPool
  /\ logoutSignalled(hook, e) => logoutCalls < MaxLogoutCalls
  /\ hook' = handleEvent(hook, e)
  /\ timer' = Rearm(timer, hook.content, hook')
  /\ logoutRunning' =
       IF logoutSignalled(hook, e)
       THEN logoutRunning \cup {[padId |-> hook.padId,
                                 sessionCreatedAt |-> hook.sessionCreatedAt]}
       ELSE logoutRunning
  /\ logoutCalls' = IF logoutSignalled(hook, e) THEN logoutCalls + 1
                    ELSE logoutCalls
  /\ lastLogout' =
       IF e.kind = LOGOUT_KIND
       THEN [event |-> e, seen |-> {r \in relayEvents : r.event = e},
             editor |-> canEdit(hook), padId |-> hook.padId,
             createdAt |-> hook.sessionCreatedAt,
             invoked |-> logoutCalls' # logoutCalls,
             changed |-> hook' # hook \/ logoutRunning' # logoutRunning]
       ELSE lastLogout
  /\ delivered' =
       IF IsForeignContentEvent(hook, e) /\ ~canEdit(hook)
       THEN [delivered EXCEPT !.foreign = TRUE]
       ELSE IF ~IsPadContentEvent(hook, e) THEN delivered
       ELSE IF ~canEdit(hook)
       THEN [delivered EXCEPT !.events = @ \cup
               {decodePayload(e.content, hook.padId)}]
       ELSE IF hook.isLocalChange
               /\ decodePayload(e.content, hook.padId).timestamp
                    > hook.latestTimestamp
       THEN [delivered EXCEPT !.guarded = TRUE]
       ELSE delivered
  /\ UNCHANGED <<now, inflight, fetches, loadKeys, stored, storedB,
                 relayEvents, edits, published, switches, imports,
                 tabs, disc, probing, libVars>>

\* publishEvent of an in-flight doPublish settles: it resolves with the
\* relays that accepted the event, n of them, and doPublish drops the result
PublishSettle(p) ==
  /\ p \in inflight
  /\ hook' = PublishSettled(hook, p, now)
  /\ inflight' = inflight \ {p}
  /\ \E n \in 0..Cardinality(hook.activeRelays) :
       delivered' = IF hook.padId # p.publishPadId
                    THEN [delivered EXCEPT !.stale = TRUE]
                    ELSE IF n = 0
                    THEN [delivered EXCEPT !.refused = @ \cup {p}]
                    ELSE delivered
  /\ UNCHANGED <<now, timer, fetches, loadKeys, stored, storedB, relayEvents,
                 logoutRunning, edits, published, switches, imports,
                 logoutCalls, lastLogout,
                 tabs, disc, probing, libVars>>

\* querySync of an editor pool effect resolves with its newest event
FetchDone(f, e) ==
  /\ f \in fetches
  /\ e = NoEvent \/ (isValidPadEvent(e) /\ e.pubkey = f.publicKey)
  /\ hook' = FetchSettled(hook, f, e)
  /\ timer' = Rearm(timer, hook.content, hook')
  /\ fetches' = fetches \ {f}
  /\ delivered' = [delivered EXCEPT !.fetched = TRUE]
  /\ UNCHANGED <<now, inflight, loadKeys, stored, storedB, relayEvents,
                 logoutRunning, edits, published, switches, imports,
                 logoutCalls, lastLogout,
                 tabs, disc, probing, libVars>>

\* setRelayStatus from the pool's status interval or EOSE
RelayStatus(n) ==
  /\ ~hook.isDiscovering /\ hook.hasPool
  /\ n # hook.connectedCount
  /\ Commit(hook, [hook EXCEPT !.connectedCount = n], FALSE, timer)
  /\ UNCHANGED <<now, loadKeys, stored, storedB, relayEvents, logoutRunning,
                 edits, switches, imports, logoutCalls, lastLogout,
                 tabs, disc, probing, libVars>>

\* useRelayDiscovery finishes: setRelays(rs), setIsDiscovering(false)
DiscoveryDone(rs) ==
  /\ hook.isDiscovering
  /\ Commit(hook, [hook EXCEPT !.isDiscovering = FALSE, !.activeRelays = rs],
            FALSE, timer)
  /\ UNCHANGED <<now, loadKeys, stored, storedB, relayEvents, logoutRunning,
                 edits, switches, imports, logoutCalls, lastLogout,
                 tabs, disc, probing, libVars>>

\* loadKeys resolves: setKeys(deriveKeys(padId, isEdit))
KeysLoaded ==
  /\ loadKeys.pending
  /\ LET k == deriveKeys(loadKeys.padId, loadKeys.isEdit, stored) IN
       Commit(hook, [hook EXCEPT !.secretKey = k.secretKey,
                                 !.publicKey = k.publicKey,
                                 !.sessionCreatedAt =
                                    SessionCreatedAt(k, stored)],
              TRUE, timer)
  /\ tabs' = ChannelEffect(tabs, hook, hook')
  /\ loadKeys' = NoLoad
  /\ UNCHANGED <<now, stored, storedB, relayEvents, logoutRunning, edits,
                 switches, imports, logoutCalls, lastLogout,
                 disc, probing, libVars>>

\* a NEW_EDITOR broadcast from another tab: setIsMultiTabBlocked(true)
BlockTab ==
  /\ canEdit(hook) /\ ~hook.isBlocked
  /\ Commit(hook, onNewEditor(hook), FALSE, timer)
  /\ UNCHANGED <<now, loadKeys, stored, storedB, relayEvents, logoutRunning,
                 edits, switches, imports, logoutCalls, lastLogout,
                 tabs, disc, probing, libVars>>

\* a NEW_EDITOR message posted by the second tab reaches this tab's channel
TakeoverReceived ==
  /\ tabs.toThis /\ ChannelOpen(hook)
  /\ Commit(hook, onNewEditor(hook), FALSE, timer)
  /\ tabs' = [tabs EXCEPT !.toThis = FALSE]
  /\ UNCHANGED <<now, loadKeys, stored, storedB, relayEvents, logoutRunning,
                 edits, switches, imports, logoutCalls, lastLogout,
                 disc, probing, libVars>>

\* a second tab of this device opens the pad of this tab on the edit route
OpenOtherTab ==
  /\ tabs.other = "closed"
  /\ tabs' = [tabs EXCEPT !.other = "loading", !.pad = hook.padId]
  /\ UNCHANGED <<padVars, disc, probing, libVars>>

\* loadKeys of the second tab resolves; with a key its single-tab effect
\* opens the channel and posts NEW_EDITOR
OtherKeysLoaded ==
  /\ tabs.other = "loading"
  /\ tabs' = IF deriveKeys(tabs.pad, TRUE, stored).secretKey # NoKey
             THEN [tabs EXCEPT !.other = "editor",
                               !.toThis = ChannelOpen(hook)
                                            /\ hook.padId = tabs.pad]
             ELSE [tabs EXCEPT !.other = "viewer"]
  /\ UNCHANGED <<padVars, disc, probing, libVars>>

\* a NEW_EDITOR message posted by this tab reaches the second tab's channel
OtherTakeover ==
  /\ tabs.toOther /\ tabs.other = "editor"
  /\ tabs' = [tabs EXCEPT !.toOther = FALSE, !.otherBlocked = TRUE]
  /\ UNCHANGED <<padVars, disc, probing, libVars>>

\* the route changes to (p, e): PadPage re-renders with the new padId and
\* the keys it still holds; its loadKeys effect then clears the pause and
\* calls loadKeys()
PadSwitch(p, e) ==
  /\ switches < MaxSwitches
  /\ ~loadKeys.pending
  /\ <<p, e>> # <<hook.padId, hook.isEdit>>
  /\ LET new1 == [hook EXCEPT !.padId = p, !.isEdit = e]
         r1 == EffectPass(hook, new1, FALSE, now)
         new2 == [r1.h EXCEPT !.isBlocked = FALSE]
         r2 == EffectPass(r1.h, new2, FALSE, now)
         started == (IF r1.pub THEN <<r1.seen>> ELSE <<>>)
                    \o (IF r2.pub THEN <<r2.seen>> ELSE <<>>)
     IN /\ Len(published) + Len(started) <= MaxPublishes
        /\ hook' = r2.h
        /\ timer' = Rearm(timer, hook.content, r2.h)
        /\ inflight' = inflight \cup
             {PublishRecord(started[i], now, Len(published) + i) :
                i \in 1..Len(started)}
        /\ published' = published \o
             [i \in 1..Len(started) |-> PublishText(started[i]).seq]
        /\ fetches' = IF r1.fetch \/ r2.fetch
                      THEN fetches \cup {[padId |-> p,
                                          publicKey |-> hook.publicKey]}
                      ELSE fetches
        /\ delivered' = IF r1.reset \/ r2.reset
                        THEN NoDelivered
                        ELSE delivered
  /\ tabs' = ChannelEffect(tabs, hook, hook')
  /\ loadKeys' = [pending |-> TRUE, padId |-> p, isEdit |-> e]
  /\ switches' = switches + 1
  /\ UNCHANGED <<now, stored, storedB, relayEvents, logoutRunning, edits,
                 imports, logoutCalls, lastLogout, disc, probing, libVars>>

\* handleImportSession on the other device with secret key sk
ImportOnOtherDevice(sk) ==
  /\ imports < MaxImports
  /\ LET padId == getPadIdFromPubkey(getPublicKey(sk))
         logoutEvent == createLogoutEvent(padId, sk, now)
     IN /\ relayEvents' = relayEvents \cup {Published(logoutEvent, now)}
        /\ storedB' = createAndStoreSession(padId, sk,
                                            ImportSessionTimestamp(logoutEvent))
  /\ imports' = imports + 1
  /\ UNCHANGED <<hook, now, timer, inflight, fetches, loadKeys, stored,
                 logoutRunning, edits, published, delivered, switches,
                 logoutCalls, lastLogout,
                 tabs, disc, probing, libVars>>

\* handleImportSession in another tab of this device with secret key sk:
\* the device's session record is replaced under the running tab
ImportInOtherTab(sk) ==
  /\ imports < MaxImports
  /\ LET padId == getPadIdFromPubkey(getPublicKey(sk))
         logoutEvent == createLogoutEvent(padId, sk, now)
     IN /\ relayEvents' = relayEvents \cup {Published(logoutEvent, now)}
        /\ stored' = createAndStoreSession(padId, sk,
                                           ImportSessionTimestamp(logoutEvent))
  /\ imports' = imports + 1
  /\ UNCHANGED <<hook, now, timer, inflight, fetches, loadKeys, storedB,
                 logoutRunning, edits, published, delivered, switches,
                 logoutCalls, lastLogout,
                 tabs, disc, probing, libVars>>

\* handleLogout l continues after reading the stored session: it returns,
\* or clears the session and reloads the page at the view-only route
LogoutComplete(l) ==
  /\ l \in logoutRunning
  /\ IF LogoutSkipped(stored, l)
     THEN /\ logoutRunning' = logoutRunning \ {l}
          /\ UNCHANGED <<hook, timer, inflight, fetches, loadKeys, stored,
                         delivered, tabs>>
     ELSE /\ stored' = NoSession
          /\ hook' = MountHook(l.padId, FALSE)
          /\ loadKeys' = [pending |-> TRUE, padId |-> l.padId, isEdit |-> FALSE]
          /\ timer' = NoTimer
          /\ inflight' = {}
          /\ fetches' = {}
          /\ logoutRunning' = {}
          /\ delivered' = NoDelivered
          /\ tabs' = [tabs EXCEPT !.toThis = FALSE]
  /\ UNCHANGED <<now, storedB, relayEvents, edits, published, switches,
                 imports, logoutCalls, lastLogout, disc, probing, libVars>>

\* --------------------------------------------- relay discovery: environment
ProbeSteps == {1000}

\* a relay that answers after the timers have expired
Late == RELAY_DISCOVERY_TIMEOUT

\* how a relay may behave towards one probe.  The bootstrap relays behave
\* in any way; the advertised relays r3..r6 in one way each (r3 in two).
RelayBehaviours(url) ==
  IF url \in SeqToSet(BootstrapSeq)
  THEN {[infoDelay |-> i.d, info |-> i.info, socketDelay |-> k.d, kind |-> k.kind] :
          i \in {[d |-> 0, info |-> "open"], [d |-> 0, info |-> "payment_required"],
                 [d |-> 1000, info |-> "none"], [d |-> Late, info |-> "open"]},
          k \in {[d |-> 0, kind |-> "open"], [d |-> 1000, kind |-> "open"],
                 [d |-> 0, kind |-> "error"], [d |-> Late, kind |-> "open"]}}
  ELSE IF url = "r3"
  THEN {[infoDelay |-> 0, info |-> "open", socketDelay |-> 0, kind |-> k] :
          k \in {"open", "error"}}
  ELSE IF url = "r4"
  THEN {[infoDelay |-> 1000, info |-> "open", socketDelay |-> 0, kind |-> "open"]}
  ELSE IF url = "r5"
  THEN {[infoDelay |-> 0, info |-> "open", socketDelay |-> 1000, kind |-> "open"]}
  ELSE {[infoDelay |-> Late, info |-> "open", socketDelay |-> 0, kind |-> "open"]}

\* the relay urls the NIP-66 and the NIP-65 events on the seed relays name
Nip66Lists == {<<>>, <<"r3/", "r1">>}
Nip65Lists == {<<>>, <<"r3", "r4", "r5", "r6">>}

\* the 'r' tags of the relay list event announced for the pad
AnnouncedTags ==
  {<<[url |-> "r4", marker |-> "write"]>>,
   <<[url |-> "r3", marker |-> ""]>>,
   <<[url |-> "r2", marker |-> ""], [url |-> "r3", marker |-> "read"],
     [url |-> "r3", marker |-> ""], [url |-> "r4", marker |-> "write"]>>}

\* probe p may still be unresolved d ms from now
NotOverdue(p, d) ==
  \E o \in RelayBehaviours(p.url) : probeRelay(p.url, o).took >= p.total + d

Running(pr) == {i \in 1..Len(pr.probes) : ~pr.probes[i].done}

\* initializeRelays waits on the timer of a subscription
Waiting(d) == d.pc \in {"nip66", "nip65", "lookupPrimary", "lookupFallback"}

WaitLimit(d) ==
  IF d.pc \in {"nip66", "nip65"} THEN RELAY_DISCOVERY_TIMEOUT
  ELSE RELAY_PROBE_TIMEOUT

\* ------------------------------------------------- relay discovery: actions
\* d ms pass while probes or a subscription are pending
Elapse(d) ==
  /\ Running(probing) # {} \/ Waiting(disc)
  /\ \A i \in Running(probing) : NotOverdue(probing.probes[i], d)
  /\ Waiting(disc) => disc.wait + d <= WaitLimit(disc)
  /\ probing' = [probing EXCEPT !.probes =
        [i \in 1..Len(probing.probes) |->
           IF probing.probes[i].done THEN probing.probes[i]
           ELSE [probing.probes[i] EXCEPT !.total = @ + d]]]
  /\ disc' = [disc EXCEPT !.wait = IF Waiting(disc) THEN @ + d ELSE @,
                          !.age = IF disc.second THEN @ + d ELSE @]
  /\ UNCHANGED <<padVars, libVars, tabs>>

\* the effect of useRelayDiscovery calls initializeRelays()
InitializeRelays ==
  /\ disc.pc = "mount" /\ ~disc.initialized
  /\ IF disc.editor
     THEN /\ disc' = [disc EXCEPT !.initialized = TRUE, !.isDiscovering = TRUE,
                                  !.pc = "probeBootstrap", !.probed = TRUE]
          /\ probing' = StartProbing(BootstrapSeq)
     ELSE /\ disc' = [disc EXCEPT !.initialized = TRUE, !.isDiscovering = TRUE,
                                  !.pc = "lookupPrimary", !.wait = 0,
                                  !.lookedUp = TRUE]
          /\ UNCHANGED probing
  /\ UNCHANGED <<padVars, libVars, tabs>>

\* padId, secretKey or isEditor has changed (the keys were loaded, the route
\* changed): initializeRelays is a new callback and the effect calls it
\* again
InitializeRelaysAgain ==
  /\ disc.initialized /\ ~disc.reinvoked
  /\ IF AlreadyInitialized(disc)
     THEN /\ disc' = [disc EXCEPT !.reinvoked = TRUE]
          /\ UNCHANGED probing
     ELSE IF disc.editor
     THEN /\ disc' = [disc EXCEPT !.reinvoked = TRUE, !.isDiscovering = TRUE,
                                  !.pc = "probeBootstrap", !.probed = TRUE]
          /\ probing' = StartProbing(BootstrapSeq)
     ELSE /\ disc' = [disc EXCEPT !.reinvoked = TRUE, !.isDiscovering = TRUE,
                                  !.pc = "lookupPrimary", !.wait = 0,
                                  !.lookedUp = TRUE]
          /\ UNCHANGED probing
  /\ UNCHANGED <<padVars, libVars, tabs>>

\* probeRelay i resolves: the relay has behaved as o
ProbeDone(i, o) ==
  /\ i \in Running(probing)
  /\ o \in RelayBehaviours(probing.probes[i].url)
  /\ probeRelay(probing.probes[i].url, o).took = probing.probes[i].total
  /\ probing' = ProbeResolved(probing, i,
                               probeRelay(probing.probes[i].url, o).result)
  /\ UNCHANGED <<padVars, libVars, tabs, disc>>

\* initializeRelays continues after await probeRelays(BOOTSTRAP_RELAYS)
BootstrapProbed ==
  /\ disc.pc = "probeBootstrap" /\ probing.resolved
  /\ disc' = AfterBootstrapProbe(disc, probing.value)
  /\ UNCHANGED <<padVars, libVars, tabs, probing>>

\* the timer of fetchEventsFromRelays fires; the events collected name urls
QueryDone(urls) ==
  /\ disc.pc \in {"nip66", "nip65"} /\ disc.wait = RELAY_DISCOVERY_TIMEOUT
  /\ urls \in (IF disc.pc = "nip66" THEN Nip66Lists ELSE Nip65Lists)
  /\ LET discovered == AddNormalized(disc.discovered, urls)
         d1 == [disc EXCEPT !.discovered = discovered, !.wait = 0,
                            !.anyOk = @ \/ urls # <<>>]
     IN IF disc.pc = "nip66"
        THEN /\ disc' = [d1 EXCEPT !.pc = "nip65"]
             /\ UNCHANGED probing
        ELSE /\ disc' = [d1 EXCEPT !.pc = "probeCandidates"]
             /\ probing' = StartProbing(Take(discovered, MAX_RELAYS_TO_PROBE))
  /\ UNCHANGED <<padVars, libVars, tabs>>

\* initializeRelays continues after await selectBestRelays
CandidatesProbed ==
  /\ disc.pc = "probeCandidates" /\ probing.resolved
  /\ disc' = AfterCandidateProbe(disc, probing.value)
  /\ UNCHANGED <<padVars, libVars, tabs, probing>>

\* Promise.allSettled of publishRelayList resolves
RelayListPublished ==
  /\ disc.pc \in {"publishBootstrap", "publishBest"}
  /\ disc' = Finally(disc)
  /\ UNCHANGED <<padVars, libVars, tabs, probing>>

\* the subscription of tryFilter delivers a relay list event with tags
LookupFound(tags) ==
  /\ disc.pc \in {"lookupPrimary", "lookupFallback"}
  /\ disc' = FilterTried(disc, ReadableUrls(parseRelayListEvent(tags)))
  /\ UNCHANGED <<padVars, libVars, tabs, probing>>

\* the timer of tryFilter fires: null
LookupTimeout ==
  /\ disc.pc \in {"lookupPrimary", "lookupFallback"}
  /\ disc.wait = RELAY_PROBE_TIMEOUT
  /\ disc' = FilterTried(disc, <<>>)
  /\ UNCHANGED <<padVars, libVars, tabs, probing>>

\* a call inside the try block throws (pool.subscribe, finalizeEvent,
\* pool.publish)
DiscoveryThrows ==
  /\ \/ Waiting(disc) /\ disc.wait = 0
     \/ disc.pc \in {"publishBootstrap", "publishBest"}
  /\ disc' = Caught(disc)
  /\ UNCHANGED <<padVars, libVars, tabs, probing>>

\* the page is reloaded: a new useRelayDiscovery for the same pad and role
Remount ==
  /\ disc.pc = "done" /\ ~disc.second
  /\ disc' = MountDiscovery(disc.editor, TRUE,
                [done |-> TRUE, relaySource |-> disc.relaySource])
  /\ probing' = NoProbing
  /\ UNCHANGED <<padVars, libVars, tabs>>

\* ------------------------------------------------- session store: actions
\* every call opens the database first: await initDB()
WithDB(v) ==
  [v EXCEPT !.db = initDB(v.db),
            !.upgradedFrom = IF v.db.version < DB_VERSION
                             THEN v.db.version ELSE @]

\* the application starts and opens the database
OpenDatabase ==
  /\ vault.db.version < DB_VERSION
  /\ vault' = WithDB(vault)
  /\ UNCHANGED <<padVars, tabs, disc, probing, send, codec>>

\* createAndStoreSession(padId, privateKey) of a new or an imported session
\* (the callers derive padId from the key); key and iv are what
\* encryptPrivateKey generates, ok is FALSE when the transaction fails
CreateAndStoreSession(sk, key, iv, ok) ==
  LET padId == getPadIdFromPubkey(getPublicKey(sk))
      e == encryptPrivateKey(sk, key, iv)
      v == WithDB(vault)
      db == storeSession(v.db, padId, e.encrypted, e.key, e.iv)
      call == [NoVaultCall EXCEPT !.op = "createAndStoreSession",
                                  !.padId = padId, !.key = sk,
                                  !.failed = ~ok]
  IN /\ vault' = IF ok
                 THEN [v EXCEPT !.db = db, !.call = call, !.tampers = 0,
                                !.written = getStoredSession(db),
                                !.previous = getStoredSession(v.db).padId]
                 ELSE [v EXCEPT !.call = call]
     /\ UNCHANGED <<padVars, tabs, disc, probing, send, codec>>

\* clearSession()
ClearSession ==
  /\ vault' = [WithDB(vault) EXCEPT
                 !.db = clearSession(vault.db), !.written = NoRecord,
                 !.previous = "", !.tampers = 0,
                 !.call = [NoVaultCall EXCEPT !.op = "clearSession"]]
  /\ UNCHANGED <<padVars, tabs, disc, probing, send, codec>>

\* the stored record is modified from outside the application
Tamper(kind) ==
  /\ getStoredSession(vault.db) # NoRecord
  /\ vault.tampers < MaxTampers
  /\ vault' = [vault EXCEPT
                 !.db.records[GLOBAL_KEY] = Tampered(@, kind),
                 !.tampers = @ + 1]
  /\ UNCHANGED <<padVars, tabs, disc, probing, send, codec>>

\* getDecryptedPrivateKey(padId)
GetDecryptedPrivateKey(padId) ==
  LET v == WithDB(vault)
      got == getDecryptedPrivateKey(v.db, padId)
  IN /\ vault' = [v EXCEPT !.call =
                    [NoVaultCall EXCEPT !.op = "getDecryptedPrivateKey",
                                        !.padId = padId,
                                        !.session = getStoredSession(v.db),
                                        !.key = got.key,
                                        !.decrypted = got.decrypted]]
     /\ UNCHANGED <<padVars, tabs, disc, probing, send, codec>>

\* deriveKeys(padId, isEdit)
DeriveKeys(padId, isEdit) ==
  LET v == IF isEdit THEN WithDB(vault) ELSE vault
      got == IF isEdit THEN getDecryptedPrivateKey(v.db, padId)
             ELSE [key |-> NoKey, decrypted |-> FALSE]
      keys == deriveKeys(padId, isEdit,
                         [padId |-> padId, secretKey |-> got.key,
                          createdAt |-> 0])
  IN /\ vault' = [v EXCEPT !.call =
                    [NoVaultCall EXCEPT !.op = "deriveKeys",
                                        !.padId = padId, !.isEdit = isEdit,
                                        !.session = getStoredSession(v.db),
                                        !.key = got.key,
                                        !.decrypted = got.decrypted,
                                        !.keys = keys]]
     /\ UNCHANGED <<padVars, tabs, disc, probing, send, codec>>

\* ------------------------------------------------------- nostr.ts: actions
\* publishEvent(pool, event, relays) is called: relays.map runs every async
\* callback up to its await, so every attempt is started. When pool.publish
\* gives an array the awaits, Promise.allSettled and the return complete in
\* the microtasks of the same task, before any relay has answered
PublishEventCalled(relays, returns) ==
  /\ send.pc = "idle" /\ send.sends < MaxSends
  /\ LET started == [NoSend EXCEPT
                       !.returns = returns, !.relays = relays,
                       !.sends = send.sends + 1,
                       !.attempts = [r \in SendRelays |->
                          IF r \in SeqToSet(relays) THEN "pending" ELSE "none"]]
     IN send' = IF returns = "promises"
                THEN [started EXCEPT !.pc = "returned",
                                     !.successRelays = relays,
                                     !.value = relays]
                ELSE [started EXCEPT !.pc = "called"]
  /\ UNCHANGED <<padVars, tabs, disc, probing, vault, codec>>

\* relay r accepts (ok) or refuses the event, or the connection fails
AttemptSettles(r, ok) ==
  /\ send.attempts[r] = "pending"
  /\ LET attempts == [send.attempts EXCEPT ![r] = IF ok THEN "ok" ELSE "failed"]
         pushed == IF ok /\ send.pc = "called"
                   THEN Append(send.successRelays, r) ELSE send.successRelays
         settled == \A x \in SendRelays : attempts[x] # "pending"
     IN send' = [send EXCEPT
                   !.attempts = attempts,
                   !.successRelays = pushed,
                   !.pc = IF send.pc = "called" /\ settled
                          THEN "returned" ELSE @,
                   !.value = IF send.pc = "called" /\ settled
                             THEN pushed ELSE @]
  /\ UNCHANGED <<padVars, tabs, disc, probing, vault, codec>>

\* the caller is done with the value; a later publish may follow
SendForgotten ==
  /\ send.pc = "returned"
  /\ \A r \in SendRelays : send.attempts[r] # "pending"
  /\ send' = [NoSend EXCEPT !.sends = send.sends]
  /\ UNCHANGED <<padVars, tabs, disc, probing, vault, codec>>

\* encodePayload(text, padId) at Date.now() = t
Encoded(text, padId, t) ==
  /\ codec' = [NoCodec EXCEPT !.content = encodePayload(text, padId, t),
                              !.made = "encodePayload", !.text = text,
                              !.padId = padId, !.timestamp = t]
  /\ UNCHANGED <<padVars, tabs, disc, probing, vault, send>>

\* an event arrives with content c that encodePayload has not made
Received(c) ==
  /\ codec' = [NoCodec EXCEPT !.content = c, !.made = "malformed"]
  /\ UNCHANGED <<padVars, tabs, disc, probing, vault, send>>

\* decodePayload(content, padId)
Decoded(padId) ==
  /\ codec.made # ""
  /\ codec' = [codec EXCEPT !.decodedFor = padId,
                            !.payload = decodePayload(codec.content, padId)]
  /\ UNCHANGED <<padVars, tabs, disc, probing, vault, send>>

\* ----------------------------------------------------------- specifications
\* the writer: edits, debounce, publish, relay status, the other tab
Next ==
  \/ \E d \in TickSteps : Tick(d)
  \/ DebounceFire
  \/ \E c \in Texts : SetContent(c)
  \/ \E p \in inflight : PublishSettle(p)
  \/ \E f \in fetches : \E e \in FetchResults : FetchDone(f, e)
  \/ \E n \in 0..Cardinality(BOOTSTRAP_RELAYS) : RelayStatus(n)
  \/ DiscoveryDone(BOOTSTRAP_RELAYS)
  \/ KeysLoaded
  \/ BlockTab

Spec == Init /\ [][Next]_vars

\* the writer whose timers fire and whose promises settle: time passes, a
\* due timeout runs, publishEvent, querySync, relay discovery and deriveKeys
\* come to an end; the writer's edits and the relays' status changes are
\* under no obligation
SpecFair ==
  /\ Spec
  /\ WF_vars(\E d \in TickSteps : Tick(d))
  /\ WF_vars(DebounceFire)
  /\ WF_vars(\E p \in inflight : PublishSettle(p))
  /\ WF_vars(\E f \in fetches : \E e \in FetchResults : FetchDone(f, e))
  /\ WF_vars(DiscoveryDone(BOOTSTRAP_RELAYS))
  /\ WF_vars(KeysLoaded)

\* the writer whose relays also hand content events to handleEvent
NextInbound ==
  \/ Tick(DEBOUNCE_MS)
  \/ DebounceFire
  \/ \E c \in Texts : SetContent(c)
  \/ \E e \in EditorEvents : HandleEvent(e)
  \/ \E p \in inflight : PublishSettle(p)
  \/ \E f \in fetches : \E e \in FetchResults : FetchDone(f, e)
  \/ \E n \in 0..1 : RelayStatus(n)
  \/ DiscoveryDone(BOOTSTRAP_RELAYS)
  \/ KeysLoaded

SpecInbound == InitEditor /\ [][NextInbound]_vars

\* the writer whose pad was last written by a device whose clock is ahead of
\* this one's: querySync resolves with an event stamped after this
\* device's Date.now()
AheadTime == MaxTime + 500

AheadFetchResults ==
  FetchResults \cup {createPadEvent("r", "padA", "skA", AheadTime)}

NextAhead ==
  \/ Tick(DEBOUNCE_MS)
  \/ DebounceFire
  \/ \E c \in Texts : SetContent(c)
  \/ \E p \in inflight : PublishSettle(p)
  \/ \E f \in fetches : \E e \in AheadFetchResults : FetchDone(f, e)
  \/ \E n \in 0..1 : RelayStatus(n)
  \/ DiscoveryDone(BOOTSTRAP_RELAYS)
  \/ KeysLoaded

SpecAhead == InitEditor /\ [][NextAhead]_vars

\* the writer who changes the route
NextSwitch ==
  \/ Tick(DEBOUNCE_MS)
  \/ DebounceFire
  \/ \E c \in Texts : SetContent(c)
  \/ \E p \in inflight : PublishSettle(p)
  \/ \E f \in fetches : FetchDone(f, NoEvent)
  \/ \E n \in 0..1 : RelayStatus(n)
  \/ DiscoveryDone(BOOTSTRAP_RELAYS)
  \/ KeysLoaded
  \/ \E p \in PadIds : \E e \in BOOLEAN : PadSwitch(p, e)

SpecSwitch == InitEditor /\ [][NextSwitch]_vars

\* the reader
NextView ==
  \/ \E e \in ContentEvents : HandleEvent(e)
  \/ \E n \in 0..Cardinality(BOOTSTRAP_RELAYS) : RelayStatus(n)
  \/ DiscoveryDone(BOOTSTRAP_RELAYS)
  \/ KeysLoaded
  \/ \E p \in PadIds : PadSwitch(p, FALSE)

SpecView == InitView /\ [][NextView]_vars

\* two devices: this one edits, the other one imports a key
NextLogout ==
  \/ Tick(DEBOUNCE_MS)
  \/ \E e \in LogoutEvents : HandleEvent(e)
  \/ \E f \in fetches : FetchDone(f, NoEvent)
  \/ DiscoveryDone(BOOTSTRAP_RELAYS)
  \/ KeysLoaded
  \/ \E sk \in SecretKeys : ImportOnOtherDevice(sk)
  \/ \E sk \in SecretKeys : ImportInOtherTab(sk)
  \/ \E l \in logoutRunning : LogoutComplete(l)

SpecLogout == InitLogout /\ [][NextLogout]_vars

\* two tabs of one device on the pad, and a key import on another device
NextTabs ==
  \/ \E c \in Texts : SetContent(c)
  \/ \E e \in TabEvents : HandleEvent(e)
  \/ \E f \in fetches : FetchDone(f, NoEvent)
  \/ DiscoveryDone(BOOTSTRAP_RELAYS)
  \/ KeysLoaded
  \/ \E l \in logoutRunning : LogoutComplete(l)
  \/ OpenOtherTab
  \/ OtherKeysLoaded
  \/ TakeoverReceived
  \/ OtherTakeover

SpecTabs == InitEditor /\ [][NextTabs]_vars

\* useRelayDiscovery of an editor or a viewer, mounted once and once more
\* after a reload
InitRelays ==
  /\ OpenedPage(TRUE, NoSession, {})
  /\ \E editor \in BOOLEAN : disc = MountDiscovery(editor, FALSE, NoPrior)
  /\ probing = NoProbing
  /\ LibIdle

DiscoverySteps ==
  \/ \E d \in ProbeSteps : Elapse(d)
  \/ InitializeRelays
  \/ \E i \in Running(probing) :
       \E o \in RelayBehaviours(probing.probes[i].url) : ProbeDone(i, o)
  \/ BootstrapProbed
  \/ \E urls \in Nip66Lists \cup Nip65Lists : QueryDone(urls)
  \/ CandidatesProbed
  \/ RelayListPublished
  \/ \E tags \in AnnouncedTags : LookupFound(tags)
  \/ LookupTimeout

NextRelays ==
  \/ DiscoverySteps
  \/ DiscoveryThrows
  \/ InitializeRelaysAgain
  \/ Remount

SpecRelays == InitRelays /\ [][NextRelays]_vars

\* every timer fires and every promise that settles is continued
SpecRelaysFair == SpecRelays /\ WF_vars(DiscoverySteps)

\* probeRelays called on a list of urls, its probes resolving as time passes
ProbeLists == {<<>>, <<"r1">>, <<"r1", "r2">>, <<"r3", "r4", "r5", "r6">>}

InitProbe ==
  /\ OpenedPage(FALSE, NoSession, {})
  /\ disc = NoDiscovery
  /\ \E urls \in ProbeLists : probing = StartProbing(urls)
  /\ LibIdle

NextProbe ==
  \/ \E d \in ProbeSteps : Elapse(d)
  \/ \E i \in Running(probing) :
       \E o \in RelayBehaviours(probing.probes[i].url) : ProbeDone(i, o)

SpecProbe == InitProbe /\ [][NextProbe]_vars /\ WF_vars(NextProbe)

\* sessionStorage.ts and deriveKeys over a browser that is new or holds
\* the database of the earlier version
InitVault ==
  /\ OpenedPage(FALSE, NoSession, {})
  /\ disc = NoDiscovery /\ probing = NoProbing
  /\ \E db \in {NoDatabase, LegacyDatabase} : vault = NewVault(db)
  /\ send = NoSend /\ codec = NoCodec

NextVault ==
  \/ OpenDatabase
  \/ \E sk \in SecretKeys, key \in AesKeys, iv \in Ivs, ok \in BOOLEAN :
       CreateAndStoreSession(sk, key, iv, ok)
  \/ ClearSession
  \/ \E kind \in Tampers : Tamper(kind)
  \/ \E padId \in PadIds : GetDecryptedPrivateKey(padId)
  \/ \E padId \in PadIds, isEdit \in BOOLEAN : DeriveKeys(padId, isEdit)

SpecVault == InitVault /\ [][NextVault]_vars

\* publishEvent, encodePayload and decodePayload of nostr.ts
NextNostr ==
  \/ \E relays \in RelayLists, returns \in PoolPublishReturns :
       PublishEventCalled(relays, returns)
  \/ \E r \in SendRelays, ok \in BOOLEAN : AttemptSettles(r, ok)
  \/ SendForgotten
  \/ \E text \in Texts, padId \in PadIds, t \in CodecTimes :
       Encoded(text, padId, t)
  \/ \E c \in Malformed : Received(c)
  \/ \E padId \in PadIds : Decoded(padId)

SpecNostr == InitView /\ [][NextNostr]_vars

\* --------------------------------------------------------------- properties
\* a step in which doPublish starts a publish, and the publishes it starts
PublishStarted == Len(published') > Len(published)
NewPublishes == inflight' \ inflight
TextOf(p) == decodePayload(p.event.content, p.publishPadId).text

DistinctTimestamps(ps) ==
  \A p, q \in ps : p.timestamp = q.timestamp => p = q

Newest(ps) == CHOOSE p \in ps : \A q \in ps : q.timestamp <= p.timestamp

\* C1: in view-only mode, when the valid content events of the pad handed to
\* handleEvent so far carry pairwise distinct timestamps, the displayed
\* content is the text of the one with the greatest timestamp, whatever the
\* order and the repetition of the deliveries
C1_LastWriterWins ==
  (~canEdit(hook) /\ delivered.events # {}
     /\ DistinctTimestamps(delivered.events))
  => hook.content = Newest(delivered.events).text

\* both timestamps were delivered, with different texts
C1_Witness ==
  /\ ~canEdit(hook)
  /\ \E p, q \in delivered.events :
       /\ p.timestamp < q.timestamp /\ p.text # q.text
       /\ delivered.events = {p, q}
       /\ hook.content = q.text

\* C2: a content event whose timestamp is at most the recorded latest
\* timestamp is discarded: handleEvent leaves the content, the latest
\* timestamp, the latest text and the latest event as they were
C2_StaleDiscarded ==
  [][\A e \in ContentEvents :
       (/\ HandleEvent(e)
        /\ IsPadContentEvent(hook, e)
        /\ decodePayload(e.content, hook.padId).timestamp
             <= hook.latestTimestamp)
       => /\ hook'.content = hook.content
          /\ hook'.latestTimestamp = hook.latestTimestamp
          /\ hook'.latestText = hook.latestText
          /\ hook'.latestEvent = hook.latestEvent]_vars

\* two events with the same timestamp and different texts were delivered,
\* and the first one is still displayed
C2_Witness ==
  /\ ~canEdit(hook)
  /\ \E p, q \in delivered.events :
       /\ p.timestamp = q.timestamp /\ p.text # q.text
       /\ hook.latestTimestamp = p.timestamp
       /\ hook.latestText = p.text /\ hook.content = p.text

\* C3: while isLocalChange is set, handleEvent does not change the displayed
\* content, whatever the event's timestamp
C3_LocalEditWins ==
  [][\A e \in EditorEvents :
       (HandleEvent(e) /\ hook.isLocalChange)
       => hook'.content = hook.content]_vars

\* a newer event was recorded during a local edit and the edit is displayed
C3_Witness ==
  /\ delivered.guarded /\ hook.isLocalChange
  /\ hook.latestText = "r" /\ hook.content # "r"

\* the useDebounce timeout fires in this step
FireStep == timer.armed /\ ~timer'.armed

\* the writer can publish: key held, relay connected, discovery over, not
\* paused
CanPublish(h) ==
  canEdit(h) /\ h.connectedCount > 0 /\ ~h.isDiscovering /\ ~h.isBlocked

C5_NoPublishWithoutRelay ==
  [][PublishStarted =>
       (~hook'.isDiscovering /\ hook'.connectedCount > 0)]_vars

\* the debounce delivered an edit with no relay connected: nothing published
C5_Witness ==
  /\ canEdit(hook) /\ ~hook.isBlocked /\ hook.connectedCount = 0
  /\ hook.debouncedSeq > 0 /\ hook.debouncedContent # ""
  /\ published = <<>>

\* C6: no publish starts whose text equals latestText, the text of the most
\* recently adopted or published event of the pad
C6_NoUnchangedPublish ==
  [][\A p \in NewPublishes : TextOf(p) # hook'.latestText]_vars

\* the debounced text equals the fetched text: the publish effect has run
\* with a relay connected and published nothing
C6_Witness ==
  /\ CanPublish(hook) /\ ~hook.pendingPublish
  /\ hook.debouncedContent = hook.latestText /\ hook.debouncedContent # ""
  /\ hook.latestTimestamp > 0
  /\ published = <<>>

\* C7: no publish of the empty text starts while latestTimestamp is 0
C7_NoEmptyInitialPublish ==
  [][\A p \in NewPublishes :
       ~(TextOf(p) = "" /\ hook'.latestTimestamp = 0)]_vars

\* after edits and a route change the publish effect has run for the new
\* pad with the empty text and published nothing
C7_Witness ==
  /\ switches > 0 /\ Len(edits) > 0
  /\ CanPublish(hook) /\ ~hook.pendingPublish /\ hook.hasPool
  /\ hook.debouncedContent = "" /\ hook.latestTimestamp = 0
  /\ published = <<>>

\* C8: setContent changes the content, and a publish starts, only at an
\* instance that holds the secret key and is not paused
C8_EditorOnly ==
  [][/\ edits' # edits => (canEdit(hook) /\ ~hook.isBlocked)
     /\ PublishStarted => (canEdit(hook') /\ ~hook'.isBlocked)]_vars

\* an edit was accepted, the tab was paused, the debounce delivered the edit
\* with a relay connected: nothing published
C8_Witness ==
  /\ hook.isBlocked /\ Len(edits) > 0
  /\ hook.connectedCount > 0 /\ ~hook.isDiscovering
  /\ hook.debouncedSeq > 0 /\ hook.debouncedContent # ""
  /\ hook.latestTimestamp = 0
  /\ published = <<>>

C10_Claim ==
  \A r \in lastLogout.seen :
    (/\ r.publishedAt > StartTime
     /\ storedB # NoSession
     /\ storedB.createdAt = ImportSessionTimestamp(r.event)
     /\ lastLogout.editor
     /\ lastLogout.padId = r.event.dtag)
    => lastLogout.invoked

\* C11: when a second tab of the device has opened the pad in edit mode and
\* its NEW_EDITOR broadcast is delivered to the older tab, the older tab is
\* paused (isBlocked, local edits rejected); neither the opening of the
\* second tab, nor its loading of the keys, nor a broadcast in either
\* direction clears or modifies the stored session record.
C11_TakeoverPauses ==
  [][/\ (tabs.toThis /\ ~tabs'.toThis /\ ChannelDeps(hook') = ChannelDeps(hook))
        => /\ hook'.isBlocked
           /\ \A c \in Texts : setContent(hook', c, 1) = hook'
           /\ stored' = stored
     /\ (tabs'.other # tabs.other \/ tabs'.otherBlocked # tabs.otherBlocked)
        => stored' = stored]_vars

C11_Witness ==
  /\ tabs.other = "editor" /\ ~tabs.toThis
  /\ canEdit(hook) /\ hook.isBlocked
  /\ stored = NewSession("skA", StartTime)

\* the relays of the bootstrap set, and a sequence without repetitions
Bootstrap == SeqToSet(BootstrapSeq)
NoDuplicates(q) == \A i, j \in 1..Len(q) : q[i] = q[j] => i = j

\* C12: in every reachable state of useRelayDiscovery, for an editor and for
\* a viewer, whatever the probes, the directory queries, the announcement
\* lookup and the publish of the relay list do (fail, time out, throw), the
\* relays the hook returns are a non-empty list.
C12_RelaysNonEmpty == Len(disc.relays) > 0

C12_Witness ==
  /\ disc.editor /\ disc.pc = "done" /\ disc.queried /\ ~disc.anyOk
  /\ ~disc.threw /\ Len(disc.relays) > 0

\* C13 as the spec states it: every relay list the hook returns contains
\* every bootstrap relay.
C13_Claim == Bootstrap \subseteq SeqToSet(disc.relays)

\* the probe of the bootstrap relays has resolved for an editor and every
\* bootstrap relay was available
AllBootstrapResponded ==
  /\ disc.editor /\ ~disc.queried
  /\ probing.urls = BootstrapSeq /\ probing.resolved
  /\ Len(probing.value) = Len(BootstrapSeq)

\* C14: for an editor, when every bootstrap relay answered the probe, the
\* relays are exactly the bootstrap list and the source is 'bootstrap', and
\* no step of initializeRelays issues a directory query (NIP-66, NIP-65).
C14_BootstrapDirect ==
  /\ [](AllBootstrapResponded
         => /\ disc.relays = BootstrapSeq
            /\ disc.relaySource = "bootstrap"
            /\ disc.pc \in {"probeBootstrap", "publishBootstrap", "done"})
  /\ [][AllBootstrapResponded => ~disc'.queried]_vars

C14_Witness ==
  /\ disc.editor /\ disc.pc = "done" /\ ~disc.threw
  /\ probing.urls = BootstrapSeq /\ Len(probing.value) = Len(BootstrapSeq)
  /\ disc.relays = BootstrapSeq /\ ~disc.queried

\* C15: when the timers fire, a mounted useRelayDiscovery for which no
\* probe reports an available relay, no directory query returns a url and
\* no announcement is found reaches the end of initializeRelays with
\* isDiscovering false and the bootstrap list as relays.
C15_SelectionCompletes ==
  (disc.pc = "mount")
    ~> (\/ disc.anyOk
        \/ (disc.pc = "done" /\ ~disc.isDiscovering
               /\ disc.relays = BootstrapSeq))

C15_Witness ==
  /\ ~disc.editor /\ disc.lookedUp /\ disc.pc = "done" /\ ~disc.anyOk
  /\ ~disc.threw /\ ~disc.isDiscovering /\ disc.relays = BootstrapSeq

\* C16: when a call inside the try block of initializeRelays has thrown,
\* initializeRelays has ended with the bootstrap list, source 'bootstrap'
\* and isDiscovering false.
C16_ThrowFallsBack ==
  disc.threw => /\ disc.pc = "done"
                /\ disc.relays = BootstrapSeq
                /\ disc.relaySource = "bootstrap"
                /\ ~disc.isDiscovering

C16_Witness ==
  /\ disc.threw /\ disc.editor /\ disc.queried /\ disc.anyOk
  /\ disc.relays = BootstrapSeq

\* C17: for a viewer whose initializeRelays has ended, the relays are the
\* announced readable relays together with the bootstrap relays, each once,
\* when the lookup returned a non-empty list, and exactly the bootstrap list
\* otherwise.
C17_ViewerUnion ==
  (~disc.editor /\ disc.pc = "done")
  => IF disc.announced # <<>>
     THEN /\ NoDuplicates(disc.relays)
          /\ SeqToSet(disc.relays) = SeqToSet(disc.announced) \cup Bootstrap
          /\ disc.relaySource = "discovered"
     ELSE disc.relays = BootstrapSeq /\ disc.relaySource = "bootstrap"

C17_Witness ==
  /\ ~disc.editor /\ disc.pc = "done"
  /\ disc.announced = <<"r2", "r3", "r3">>
  /\ disc.relays = <<"r2", "r3", "r1">>

\* the latency probeRelays has recorded for url
LatencyOf(url) ==
  probing.results[CHOOSE i \in 1..Len(probing.results) :
                    probing.results[i].url = url].responseTime

\* C18 as the spec states it: the relays an editor has selected by discovery
\* were reported available, are in ascending order of latency, are at most
\* TARGET_RELAY_COUNT, and no probed candidate reported available with a
\* lower latency than a selected one is left out.
C18_Claim ==
  (disc.editor /\ disc.relaySource = "discovered")
  => /\ \A i \in 1..Len(disc.relays) :
          \E k \in 1..Len(probing.results) :
            /\ probing.results[k].url = disc.relays[i]
            /\ probing.results[k].available
     /\ \A i, j \in 1..Len(disc.relays) :
          i < j => LatencyOf(disc.relays[i]) <= LatencyOf(disc.relays[j])
     /\ Len(disc.relays) <= TARGET_RELAY_COUNT
     /\ \A k \in 1..Len(probing.results) :
          (probing.results[k].available
             /\ probing.results[k].url \notin SeqToSet(disc.relays))
          => \A i \in 1..Len(disc.relays) :
               LatencyOf(disc.relays[i]) <= probing.results[k].responseTime

\* C19 as the spec states it: a hook mounted for the same pad within
\* RELAY_CACHE_DURATION of a selection by discovery issues no probe, no
\* directory query and no announcement lookup.
C19_Claim ==
  (/\ disc.second /\ disc.prior.done
   /\ disc.prior.relaySource = "discovered"
   /\ disc.age < RELAY_CACHE_DURATION)
  => (~disc.probed /\ ~disc.queried /\ ~disc.lookedUp)

\* C20: a probeRelay call is resolved no later than RELAY_INFO_TIMEOUT +
\* RELAY_PROBE_TIMEOUT after the call, with one result for its url: available
\* with a latency of at most RELAY_PROBE_TIMEOUT, or unavailable.
C20_ProbeBounded ==
  \A i \in 1..Len(probing.probes) :
    LET p == probing.probes[i] IN
    /\ p.total <= RELAY_INFO_TIMEOUT + RELAY_PROBE_TIMEOUT
    /\ p.done =>
         /\ p.result.url = p.url
         /\ \/ p.result.available
               /\ p.result.responseTime <= RELAY_PROBE_TIMEOUT
            \/ ~p.result.available /\ p.result.responseTime = Infinity
         /\ Cardinality({k \in 1..Len(probing.results) :
                           probing.results[k].url = p.url}) = 1

C20_Witness ==
  \E i \in 1..Len(probing.probes) :
    /\ probing.probes[i].done
    /\ probing.probes[i].total = RELAY_INFO_TIMEOUT + RELAY_PROBE_TIMEOUT
    /\ ~probing.probes[i].result.available

\* the record under GLOBAL_KEY, and the fields the integrity tag is said to
\* cover
StoredRecord == getStoredSession(vault.db)
Covered(r) == <<r.padId, r.createdAt, r.iv, r.encryptedPrivateKey>>

\* C21 as the spec states it: a stored record whose padId, createdAt, iv or
\* encrypted key differs from what storeSession wrote while the integrity
\* tag is the one storeSession wrote fails verifyIntegrityTag, and
\* getVerifiedStoredSession returns null for it.
C21_Claim ==
  (/\ StoredRecord # NoRecord /\ vault.written # NoRecord
   /\ StoredRecord.integrityTag = vault.written.integrityTag
   /\ Covered(StoredRecord) # Covered(vault.written))
  => /\ ~verifyIntegrityTag(StoredRecord)
     /\ getVerifiedStoredSession(vault.db) = NoRecord

\* C22: when getDecryptedPrivateKey(padId) finds a stored record that has no
\* integrity tag, whose tag is not the hash of its padId, iv and encrypted
\* key, or whose padId is not the one asked for, it returns null and
\* decryptPrivateKey is not called.
C22_NoDecryptUnverified ==
  LET c == vault.call IN
  (/\ c.op = "getDecryptedPrivateKey"
   /\ \/ c.session.integrityTag = NoTag
      \/ c.session.integrityTag #
            computeIntegrityTag(c.session.padId, c.session.iv,
                                c.session.encryptedPrivateKey)
      \/ c.session.padId # c.padId)
  => (c.key = NoKey /\ ~c.decrypted)

C22_Witness ==
  /\ vault.call.op = "getDecryptedPrivateKey"
  /\ vault.call.session.padId = vault.call.padId
  /\ vault.call.session.integrityTag # NoTag
  /\ vault.call.session.iv # vault.call.session.encryptedPrivateKey.iv
  /\ vault.call.key = NoKey /\ ~vault.call.decrypted

C24_PadIdMustMatch ==
  /\ [](vault.call.op = "deriveKeys" =>
          /\ vault.call.keys.secretKey # NoKey =>
               /\ vault.call.isEdit
               /\ vault.call.keys.secretKey = vault.call.key
               /\ vault.call.keys.publicKey = getPublicKey(vault.call.key)
               /\ getPadIdFromPubkey(getPublicKey(vault.call.key))
                    = vault.call.padId
          /\ (vault.call.key # NoKey
                /\ getPadIdFromPubkey(getPublicKey(vault.call.key))
                     # vault.call.padId)
             => vault.call.keys = ViewOnlyKeys)
  /\ [][(vault'.call.op = "deriveKeys" /\ vault'.tampers = vault.tampers)
          => vault'.db.records = vault.db.records]_vars

C24_Witness ==
  /\ vault.call.op = "deriveKeys" /\ vault.call.isEdit
  /\ vault.call.key # NoKey
  /\ getPadIdFromPubkey(getPublicKey(vault.call.key)) # vault.call.padId
  /\ vault.call.keys = ViewOnlyKeys
  /\ StoredRecord.padId = vault.call.padId

\* C29 as the spec states it: once the database has been opened from a
\* lower stored version, the store holds no record written under that
\* version.
C29_Claim ==
  vault.upgradedFrom < DB_VERSION =>
    \A k \in StoreKeys :
      vault.db.records[k] = NoRecord \/ vault.db.records[k].schema = DB_VERSION

\* C25: in view-only mode handleEvent adopts nothing from a content event
\* whose author's public key does not encode to the pad's padId: the
\* content, the latest timestamp, text and event and foundPublicKey stay as
\* they were.
C25_ForeignAuthorIgnored ==
  [][\A e \in ContentEvents :
       (/\ HandleEvent(e)
        /\ ~canEdit(hook)
        /\ getPadIdFromPubkey(e.pubkey) # hook.padId)
       => /\ hook'.content = hook.content
          /\ hook'.latestTimestamp = hook.latestTimestamp
          /\ hook'.latestText = hook.latestText
          /\ hook'.latestEvent = hook.latestEvent
          /\ hook'.foundPublicKey = hook.foundPublicKey]_vars

\* a signed, decodable event by another author was handed to the viewer,
\* which still shows nothing and has found no author
C25_Witness ==
  /\ delivered.foreign /\ ~canEdit(hook)
  /\ hook.content = "" /\ hook.latestTimestamp = 0
  /\ hook.foundPublicKey = NoPub

\* C26 as the spec states it: when publishEvent has returned, every relay
\* of the given list has been attempted, every attempt has settled, and the
\* value returned holds exactly the relays that accepted the event.
C26_Claim ==
  send.pc = "returned" =>
    /\ \A r \in SeqToSet(send.relays) : send.attempts[r] \in {"ok", "failed"}
    /\ SeqToSet(send.value) = {r \in SendRelays : send.attempts[r] = "ok"}

PlaceOf(url) == CHOOSE i \in 1..Len(probing.urls) : probing.urls[i] = url

\* C28 as the spec states it: two relays of an editor's selection by
\* discovery that were measured with the same latency stand in the order
\* of the candidate list that was probed.
C28_Claim ==
  (disc.editor /\ disc.relaySource = "discovered")
  => \A i, j \in 1..Len(disc.relays) :
       (i < j /\ LatencyOf(disc.relays[i]) = LatencyOf(disc.relays[j]))
       => PlaceOf(disc.relays[i]) < PlaceOf(disc.relays[j])

\* the debounced content stems from a later edit than the publish in flight
Superseded ==
  /\ hook.pendingPublish
  /\ \E p \in inflight :
       /\ p.seq < hook.debouncedSeq
       /\ decodePayload(p.event.content, hook.padId).text # hook.debouncedContent

\* C30 as the spec states it: once the debounced content has changed while
\* a publish is in flight, a publish of that content starts eventually,
\* unless the writer edits again, no relay is connected any more or the tab
\* is paused.
C30_Claim ==
  \A n \in 0..MaxEdits :
    (Superseded /\ Len(edits) = n)
    ~> \/ \E i \in 1..Len(published) : published[i] = hook.debouncedSeq
       \/ Len(edits) # n
       \/ hook.connectedCount = 0
       \/ hook.isBlocked

\* C31 as the spec states it: while the pad context (padId, publicKey,
\* canEdit) stays the same, no step makes the recorded latest timestamp
\* smaller.
C31_Claim ==
  [][ResetDeps(hook') = ResetDeps(hook)
       => hook'.latestTimestamp >= hook.latestTimestamp]_vars

\* C32: when publishEvent settles for a publish that was started for another
\* pad than the one the instance is on, doPublish changes neither the latest
\* event, timestamp and text nor lastSaved, and resets none of isSaving,
\* isLocalChange and pendingPublish.
C32_StalePublishDropped ==
  [][\A p \in inflight :
       (PublishSettle(p) /\ p.publishPadId # hook.padId)
       => /\ hook'.latestEvent = hook.latestEvent
          /\ hook'.latestTimestamp = hook.latestTimestamp
          /\ hook'.latestText = hook.latestText
          /\ hook'.lastSaved = hook.lastSaved
          /\ hook'.isSaving = hook.isSaving
          /\ hook'.isLocalChange = hook.isLocalChange
          /\ hook'.pendingPublish = hook.pendingPublish]_vars

\* a publish started for padA has settled on padB, which shows nothing
\* saved
C32_Witness ==
  /\ delivered.stale /\ hook.padId = "padB" /\ inflight = {}
  /\ hook.lastSaved = 0 /\ hook.latestTimestamp = 0
\* C33: onLogoutSignal is called for an event only when the event is signed,
\* its author is the pad's own key and its d tag is the session's padId; a
\* logout-kind event of another key, or tagged with another padId, never
\* invalidates the session
C33_Claim ==
  [][\A e \in LogoutEvents :
       (HandleEvent(e) /\ logoutCalls' > logoutCalls)
       => /\ e.sig
          /\ e.pubkey = hook.publicKey
          /\ e.dtag = hook.padId]_vars

C35_Claim == Cardinality(inflight) <= 1

\* C36: when publishEvent of a publish of the current pad settles, the
\* published text becomes latestText and lastSaved is set to the time of
\* settling, also when no relay accepted the event; a publish that starts
\* after a publish was refused by every relay and carries the same text
\* stems from a later edit
C36_SettledIsLastKnown ==
  [][/\ \A p \in inflight :
          (PublishSettle(p) /\ p.publishPadId = hook.currentPadId)
          => /\ hook'.latestText = TextOf(p)
             /\ hook'.latestEvent = p.event
             /\ hook'.lastSaved = now
     /\ \A q \in NewPublishes : \A p \in delivered.refused :
          TextOf(q) = TextOf(p) => q.seq > p.seq]_vars

\* a publish was refused by every relay; its text is the last-known text,
\* lastSaved is set, and the publish effect, free to publish, has sent
\* nothing more
C36_Witness ==
  /\ \E p \in delivered.refused :
       /\ hook.latestText = TextOf(p) /\ hook.debouncedContent = TextOf(p)
       /\ hook.lastSaved = now
  /\ CanPublish(hook) /\ ~hook.pendingPublish
  /\ inflight = {}
  /\ Len(published) = 1

C38_Claim ==
  (/\ ChannelOpen(hook) /\ tabs.other = "editor" /\ tabs.pad = hook.padId
   /\ ~tabs.toThis /\ ~tabs.toOther)
  => (hook.isBlocked /\ ~tabs.otherBlocked)

\* C39: an invocation of initializeRelays that follows the first one of
\* the hook instance starts no probe, no query and no publish, and leaves
\* relays, relaySource and isDiscovering, and the discovery under way, as
\* they were
C39_DiscoveryOnce ==
  [][InitializeRelaysAgain
     => /\ disc'.relays = disc.relays
        /\ disc'.relaySource = disc.relaySource
        /\ disc'.isDiscovering = disc.isDiscovering
        /\ disc' = [disc EXCEPT !.reinvoked = TRUE]
        /\ probing' = probing]_vars

\* initializeRelays has been called again while the first call was probing
\* the bootstrap relays, and that probing goes on
C39_Witness ==
  /\ disc.reinvoked /\ disc.initialized
  /\ disc.pc = "probeBootstrap" /\ disc.isDiscovering
  /\ probing.completed > 0 /\ ~probing.resolved

\* C40: the promise of probeRelays(urls) resolves for every list urls, and
\* for the empty list it resolves with the empty result
C40_Claim ==
  <>(probing.resolved /\ (probing.urls = <<>> => probing.value = <<>>))

====
